---------------------------- MODULE Spec2Model ----------------------------
(***************************************************************************)
(* State-machine model of PyFunceble's status resolution pipeline          *)
(* (URLAvailabilityChecker), its rule engine (ExternalRulesHandler) and    *)
(* its HTTP client facade (Requester), with the download helper.           *)
(*                                                                         *)
(* Nine specifications share the module:                                    *)
(*   SpecRules      ExternalRulesHandler.start run on a resolved status    *)
(*   SpecChecker    URLAvailabilityChecker.query_status, stage by stage    *)
(*   SpecRequester  a Requester built from its configuration, its setters  *)
(*                  and its requests                                       *)
(*   SpecConstruct  construction of a Requester from keyword arguments     *)
(*   SpecSettings   set_config and guess_all_settings on a Requester       *)
(*   SpecDownload   DownloadHelper.download_text                           *)
(*   SpecTransport  requests through the session: resolver and proxy       *)
(*   SpecThreads    setters and requests of several threads on a Requester *)
(*   SpecHelper     the setters of a DownloadHelper between its downloads  *)
(***************************************************************************)
EXTENDS Integers, Sequences, FiniteSets, TLC

VARIABLES
    status,                     \* AvailabilityCheckerStatus (self.status)
    rulesets,                   \* ExternalRulesHandler.rulesets
    response,                   \* what a live GET on the subject answers
    live_requests,              \* history: live GETs issued by the rule engine
    checks,                     \* history: the checks the rule engine made, in order
    raised,                     \* history: an exception escaped the handler
    runs,                       \* history: completed runs of start()
    observed,                   \* history: the status handed to the first start()
    params,                     \* the feature flags of the checker
    pc,                         \* position inside query_status
    status_post_syntax_checker, \* local of query_status
    trace,                      \* history: stages of query_status that ran
    probes,                     \* history: outcome of each probe that ran
    requester,                  \* the Requester: its fields and its session
    last_call,                  \* history: the last call on the Requester
    threads,                    \* the threads inside a call on the Requester
    files,                      \* the files download_text can write to
    helper,                     \* the DownloadHelper: its fields and its session
    download                    \* history: the last call of download_text

rulesVars ==
    <<rulesets, response, live_requests, checks, raised, runs, observed>>
checkerVars == <<params, pc, status_post_syntax_checker, trace, probes>>
requesterVars == <<requester, last_call, threads>>
downloadVars == <<files, helper, download>>
vars == <<status, rulesVars, checkerVars, requesterVars, downloadVars>>

---------------------------------------------------------------------------
(* Values *)

None == "None"
UP == "ACTIVE"
DOWN == "INACTIVE"
INVALID == "INVALID"

\* self.status.http_status_code = None ; also the falsy "empty" lookup result
NoStatusCode == 0
\* http_status_code_query_tool.STD_UNKNOWN_STATUS_CODE
STD_UNKNOWN_STATUS_CODE == 99999999

---------------------------------------------------------------------------
(* Bounds *)

MaxRules == 2
MaxRuns == 2
MaxSessions == 4

---------------------------------------------------------------------------
(* ExternalRulesHandler *)

\* `x in rule`
Has(rule, key) == key \in DOMAIN rule

IsPrefix(p, s) == Len(p) <= Len(s) /\ \A i \in 1..Len(p) : p[i] = s[i]

\* regex_helper.set_regex(pattern).match(netloc, return_match=False): the
\* pattern is matched at the start of the string.  A pattern is a literal,
\* the empty literal matching every string.
RegexMatch(pattern, netloc) == IsPrefix(pattern, netloc)

\* int(x), applied to the integers of required_status_code
int(x) == x

\* The handler while it runs: the status it works on, the live requests it
\* has issued, the checks it has made and whether an exception escaped.
Handler(st, n, r) ==
    [status |-> st, requests |-> n, raised |-> r, checks |-> <<>>]

\* A payload of the rule is compared with the status or with a live answer.
Checked(h, name) == [h EXCEPT !.checks = Append(@, name)]

Raise(h) == [h EXCEPT !.raised = TRUE]

switch_to_up(h) ==
    [h EXCEPT !.status.status = UP,
              !.status.status_source = "EXTRA_RULES",
              !.status.status_after_extra_rules = UP]

switch_to_down(h) ==
    [h EXCEPT !.status.status = DOWN,
              !.status.status_source = "EXTRA_RULES",
              !.status.status_after_extra_rules = DOWN]

\* switch_method is bound only for the transitions "up" and "down"; using it
\* unbound raises.
Bound(transition) == transition \in {"up", "down"}

switch_method(h, transition) ==
    IF transition = "up" THEN switch_to_up(h)
    ELSE IF transition = "down" THEN switch_to_down(h)
    ELSE Raise(h)

\* One live GET; the method is called when a configured header matches.
do_on_header_match(h, resp, matches, transition) ==
    LET sent == Checked([h EXCEPT !.requests = @ + 1], "headers")
    IN  IF resp.ok /\ (matches \cap resp.headers) # {}
        THEN switch_method(sent, transition)
        ELSE sent

\* One live GET; the method is called when a configured pattern is found.
do_on_body_match(h, resp, matches, transition) ==
    LET sent == Checked([h EXCEPT !.requests = @ + 1], "body")
    IN  IF resp.ok /\ (matches \cap resp.body) # {}
        THEN switch_method(sent, transition)
        ELSE sent

\* Mutant: the rule fires only when every required code equals the observed one.
switch_from_status_code_rule_AllEqual(h, rule) ==
    IF ~Has(rule, "validation_type") \/ ~Has(rule, "required_status_code")
    THEN h
    ELSE IF rule.validation_type # "status_code" THEN h
    ELSE IF \E i \in 1..Len(rule.required_status_code) :
                h.status.http_status_code # int(rule.required_status_code[i])
    THEN Checked(h, "status_code")
    ELSE IF ~Has(rule, "state_transition")
    THEN Raise(Checked(h, "status_code"))
    ELSE IF rule.state_transition = "up"
    THEN switch_to_up(Checked(h, "status_code"))
    ELSE IF rule.state_transition = "down"
    THEN switch_to_down(Checked(h, "status_code"))
    ELSE Checked(h, "status_code")

switch_from_status_code_rule(h, rule) ==
    IF ~Has(rule, "validation_type") \/ ~Has(rule, "required_status_code")
    THEN h
    ELSE IF rule.validation_type # "status_code" THEN h
    ELSE IF \A i \in 1..Len(rule.required_status_code) :
                h.status.http_status_code # int(rule.required_status_code[i])
    THEN Checked(h, "status_code")
    ELSE IF ~Has(rule, "state_transition")
    THEN Raise(Checked(h, "status_code"))
    ELSE IF rule.state_transition = "up"
    THEN switch_to_up(Checked(h, "status_code"))
    ELSE IF rule.state_transition = "down"
    THEN switch_to_down(Checked(h, "status_code"))
    ELSE Checked(h, "status_code")

\* Mutant: the live request also stores the status code of its response as
\* the observed http_status_code.
switch_from_headers_rule_StoresCode(h, resp, rule) ==
    IF ~Has(rule, "validation_type") \/ ~Has(rule, "required_headers_patterns")
    THEN h
    ELSE IF rule.validation_type # "headers" THEN h
    ELSE IF ~Has(rule, "state_transition") THEN Raise(h)
    ELSE IF rule.required_headers_patterns # {}
    THEN IF ~Bound(rule.state_transition) THEN Raise(h)
         ELSE LET after == do_on_header_match(h, resp,
                               rule.required_headers_patterns,
                               rule.state_transition)
              IN  IF resp.ok
                  THEN [after EXCEPT !.status.http_status_code = resp.status_code]
                  ELSE after
    ELSE h

switch_from_headers_rule(h, resp, rule) ==
    IF ~Has(rule, "validation_type") \/ ~Has(rule, "required_headers_patterns")
    THEN h
    ELSE IF rule.validation_type # "headers" THEN h
    ELSE IF ~Has(rule, "state_transition") THEN Raise(h)
    ELSE IF rule.required_headers_patterns # {}
    THEN IF ~Bound(rule.state_transition) THEN Raise(h)
         ELSE do_on_header_match(h, resp, rule.required_headers_patterns,
                                 rule.state_transition)
    ELSE h

switch_from_body_rule(h, resp, rule) ==
    IF ~Has(rule, "validation_type") \/ ~Has(rule, "required_body_patterns")
    THEN h
    ELSE IF rule.validation_type # "body" THEN h
    ELSE IF ~Has(rule, "state_transition") THEN Raise(h)
    ELSE IF rule.required_body_patterns # {}
    THEN IF ~Bound(rule.state_transition) THEN Raise(h)
         ELSE do_on_body_match(h, resp, rule.required_body_patterns,
                               rule.state_transition)
    ELSE h

\* The three checks of an `all` rule, in order; an exception ends the rule.
AllStatusCode(h, rule) ==
    IF /\ Has(rule, "required_status_code")
       /\ rule.required_status_code # <<>>
    THEN IF \E i \in 1..Len(rule.required_status_code) :
                h.status.http_status_code = int(rule.required_status_code[i])
         THEN switch_method(Checked(h, "status_code"), rule.state_transition)
         ELSE Checked(h, "status_code")
    ELSE h

AllHeaders(h, resp, rule) ==
    IF h.raised THEN h
    ELSE IF Has(rule, "required_headers_patterns")
            /\ rule.required_headers_patterns # {}
    THEN IF ~Bound(rule.state_transition) THEN Raise(h)
         ELSE do_on_header_match(h, resp, rule.required_headers_patterns,
                                 rule.state_transition)
    ELSE h

AllBody(h, resp, rule) ==
    IF h.raised THEN h
    ELSE IF Has(rule, "required_body_patterns")
            /\ rule.required_body_patterns # {}
    THEN IF ~Bound(rule.state_transition) THEN Raise(h)
         ELSE do_on_body_match(h, resp, rule.required_body_patterns,
                               rule.state_transition)
    ELSE h

\* Mutant: the body is checked before the headers.
switch_from_all_rule_BodyFirst(h, resp, rule) ==
    IF ~Has(rule, "validation_type") THEN h
    ELSE IF rule.validation_type # "all" THEN h
    ELSE IF ~Has(rule, "state_transition") THEN Raise(h)
    ELSE AllHeaders(AllBody(AllStatusCode(h, rule), resp, rule), resp, rule)

switch_from_all_rule(h, resp, rule) ==
    IF ~Has(rule, "validation_type") THEN h
    ELSE IF rule.validation_type # "all" THEN h
    ELSE IF ~Has(rule, "state_transition") THEN Raise(h)
    ELSE AllBody(AllHeaders(AllStatusCode(h, rule), resp, rule), resp, rule)

\* The dispatch on rule["validation_type"] inside the loop of start().
Dispatch(h, resp, rule) ==
    IF rule.validation_type = "status_code"
    THEN switch_from_status_code_rule(h, rule)
    ELSE IF rule.validation_type = "headers"
    THEN switch_from_headers_rule(h, resp, rule)
    ELSE IF rule.validation_type = "body"
    THEN switch_from_body_rule(h, resp, rule)
    ELSE IF rule.validation_type = "headers+body"
    THEN LET afterHeaders == switch_from_headers_rule(h, resp, rule)
         IN  IF afterHeaders.raised THEN afterHeaders
             ELSE switch_from_body_rule(afterHeaders, resp, rule)
    ELSE IF rule.validation_type = "all"
    THEN switch_from_all_rule(h, resp, rule)
    ELSE h

RequiredKeys == {"subject_pattern", "validation_type", "state_transition"}

\* Mutant: the loop does not stop once a rule has switched the status.
RuleStep_NoBreak(h, resp, rule) ==
    IF \E k \in RequiredKeys : ~Has(rule, k)
    THEN [h |-> h, ctl |-> "skip"]
    ELSE IF ~RegexMatch(rule.subject_pattern, h.status.netloc)
    THEN [h |-> h, ctl |-> "skip"]
    ELSE IF rule.state_transition \notin {"up", "down"}
    THEN [h |-> h, ctl |-> "skip"]
    ELSE [h |-> Dispatch(h, resp, rule), ctl |-> "done"]

\* Mutant: the required keys are read without checking that they are there.
RuleStep_NoKeyCheck(h, resp, rule) ==
    IF \E k \in RequiredKeys : ~Has(rule, k)
    THEN [h |-> Raise(h), ctl |-> "stop"]
    ELSE IF ~RegexMatch(rule.subject_pattern, h.status.netloc)
    THEN [h |-> h, ctl |-> "skip"]
    ELSE IF rule.state_transition \notin {"up", "down"}
    THEN [h |-> h, ctl |-> "skip"]
    ELSE IF h.status.status_after_extra_rules # None
    THEN [h |-> h, ctl |-> "stop"]
    ELSE [h |-> Dispatch(h, resp, rule), ctl |-> "done"]

\* One iteration of the loop of start(): "skip" for continue, "stop" for
\* break, "done" when the rule was dispatched.
RuleStep(h, resp, rule) ==
    IF \E k \in RequiredKeys : ~Has(rule, k)
    THEN [h |-> h, ctl |-> "skip"]
    ELSE IF ~RegexMatch(rule.subject_pattern, h.status.netloc)
    THEN [h |-> h, ctl |-> "skip"]
    ELSE IF rule.state_transition \notin {"up", "down"}
    THEN [h |-> h, ctl |-> "skip"]
    ELSE IF h.status.status_after_extra_rules # None
    THEN [h |-> h, ctl |-> "stop"]
    ELSE [h |-> Dispatch(h, resp, rule), ctl |-> "done"]

RECURSIVE StartLoop(_, _, _, _)
StartLoop(h, resp, rules, i) ==
    IF i > Len(rules) \/ h.raised THEN h
    ELSE LET step == RuleStep(h, resp, rules[i])
         IN  IF step.ctl = "stop" THEN step.h
             ELSE StartLoop(step.h, resp, rules, i + 1)

\* ExternalRulesHandler.start
start(h, resp, rules) == StartLoop(h, resp, rules, 1)

---------------------------------------------------------------------------
(* Requester *)

\* A Python value: its type and, for a number or a bool, its value; for a
\* dict, the proxy pattern it stands for.
Value(t, v) == [t |-> t, v |-> v]
I(n) == Value("int", n)
F(n) == Value("float", n)
B(b) == Value("bool", IF b THEN 1 ELSE 0)
Str == Value("str", 0)
Dict(n) == Value("dict", n)
NoneValue == Value("none", 0)
\* A config key that is not there (a default Box answers an empty Box) and
\* a config whose lookup raises
Missing == Value("box", 0)
Raises == Value("raises", 0)

\* isinstance(value, int): a bool is an int
IsInt(x) == x.t \in {"int", "bool"}
\* isinstance(value, (int, float))
IsNumber(x) == x.t \in {"int", "bool", "float"}
IsBool(x) == x.t = "bool"
IsDict(x) == x.t = "dict"
\* float(value)
float(x) == F(x.v)
\* bool(value) of a config entry
Truthy(x) == x.t \notin {"none", "box"} /\ ~(x.t = "dict" /\ x.v = 0)
             /\ ~(IsNumber(x) /\ x.v = 0)

STD_VERIFY_CERTIFICATE == B(FALSE)
STD_TIMEOUT == F(3)
STD_MAX_RETRIES == I(3)

NoSession == [id |-> 0]

\* PyFunceble.storage.USER_AGENTS is loaded: the session carries a User-Agent
CustomHeaders == {"User-Agent"}

\* The class attributes of Requester, before __init__; sessions_created and
\* replaced are history: how many session objects were built, and the
\* session object the last rebuild replaced, with the headers it was left
\* with (the part of a session the Requester writes to).
RequesterClass ==
    [timeout |-> F(5), max_retries |-> I(3), verify_certificate |-> B(TRUE),
     max_redirects |-> I(60), proxy_pattern |-> Dict(0),
     config |-> NoneValue, dns_query_tool |-> "none",
     session |-> NoSession, sessions_created |-> 0, replaced |-> NoSession]

\* Requester.get_session: a new session object built from the fields
get_session(r) ==
    [id |-> r.sessions_created + 1,
     verify |-> r.verify_certificate,
     max_redirects |-> r.max_redirects,
     max_retries |-> r.max_retries,
     timeout |-> r.timeout,
     dns_query_tool |-> r.dns_query_tool,
     proxy_pattern |-> r.proxy_pattern,
     headers |-> CustomHeaders]

\* The outcome of a call: the Requester it leaves, whether it returned and
\* the exception it raised
Returned(r) == [r |-> r, ok |-> TRUE, err |-> "none"]
Raised(r) == [r |-> r, ok |-> FALSE, err |-> "Exception"]
TypeError(r) == [r |-> r, ok |-> FALSE, err |-> "TypeError"]
ValueError(r) == [r |-> r, ok |-> FALSE, err |-> "ValueError"]

\* What is kept of a session object once it is replaced
Retired(session) == [id |-> session.id, headers |-> session.headers]

\* Mutant: the decorator leaves the session as it is.
recreate_session_Missing(r, out) == out

\* The decorator recreate_session around a setter whose outcome is out
recreate_session(r, out) ==
    IF out.ok /\ out.r.session # NoSession
    THEN Returned([out.r EXCEPT !.session = get_session(out.r),
                                !.sessions_created = @ + 1,
                                !.replaced = Retired(out.r.session)])
    ELSE out

set_max_retries(r, value) ==
    recreate_session(r,
        IF ~IsInt(value) THEN TypeError(r)
        ELSE IF value.v < 0 THEN ValueError(r)
        ELSE Returned([r EXCEPT !.max_retries = value]))

\* Mutant: the value is stored before it is validated.
set_max_redirects_StoresFirst(r, value) ==
    recreate_session(r,
        IF ~IsInt(value) THEN TypeError([r EXCEPT !.max_redirects = value])
        ELSE IF value.v < 1 THEN ValueError([r EXCEPT !.max_redirects = value])
        ELSE Returned([r EXCEPT !.max_redirects = value]))

\* Mutant: 0 redirects are accepted.
set_max_redirects_ZeroAccepted(r, value) ==
    recreate_session(r,
        IF ~IsInt(value) THEN TypeError(r)
        ELSE IF value.v < 0 THEN ValueError(r)
        ELSE Returned([r EXCEPT !.max_redirects = value]))

set_max_redirects(r, value) ==
    recreate_session(r,
        IF ~IsInt(value) THEN TypeError(r)
        ELSE IF value.v < 1 THEN ValueError(r)
        ELSE Returned([r EXCEPT !.max_redirects = value]))

set_verify_certificate(r, value) ==
    recreate_session(r,
        IF ~IsBool(value) THEN TypeError(r)
        ELSE Returned([r EXCEPT !.verify_certificate = value]))

set_timeout(r, value) ==
    recreate_session(r,
        IF ~IsNumber(value) THEN TypeError(r)
        ELSE IF value.v < 0 THEN ValueError(r)
        ELSE Returned([r EXCEPT !.timeout = float(value)]))

set_proxy_pattern(r, value) ==
    recreate_session(r,
        IF ~IsDict(value) THEN TypeError(r)
        ELSE Returned([r EXCEPT !.proxy_pattern = value]))

\* The headers setter: self.session.headers.update(value) on the session
\* object that is there, then the decorator replaces that object.
set_headers(r, value) ==
    recreate_session(r,
        IF r.session = NoSession THEN Raised(r)
        ELSE Returned([r EXCEPT !.session.headers = @ \cup value]))

\* The verb each method is decorated with: @request_factory("GET") def get
FactoryVerb(method) ==
    CASE method = "get" -> "GET"
      [] method = "options" -> "OPTIONS"
      [] method = "head" -> "HEAD"
      [] method = "post" -> "POST"
      [] method = "put" -> "PUT"
      [] method = "patch" -> "PATCH"
      [] method = "delete" -> "DELETE"

\* verb.lower()
lower(verb) ==
    CASE verb = "GET" -> "get"
      [] verb = "OPTIONS" -> "options"
      [] verb = "HEAD" -> "head"
      [] verb = "POST" -> "post"
      [] verb = "PUT" -> "put"
      [] verb = "PATCH" -> "patch"
      [] verb = "DELETE" -> "delete"

\* A call on a session object and what the session answered: a response
\* (ok) or an exception
SessionCall(id, name, args, answer) ==
    [session |-> id, method |-> name, args |-> args, answer |-> answer]

\* Mutant: every method is forwarded to session.get.
request_factory_AlwaysGet(r, method, args, answer) ==
    [r |-> r, ok |-> answer.ok,
     err |-> IF answer.ok THEN "none" ELSE answer.value,
     result |-> IF answer.ok THEN answer.value ELSE None,
     sent |-> <<SessionCall(r.session.id, "get", args, answer)>>]

\* The wrapper request_factory builds around a verb method:
\* getattr(self.session, verb.lower())(*args, **kwargs), returned as it is;
\* an exception of the session leaves the wrapper as it is.
request_factory(r, method, args, answer) ==
    [r |-> r, ok |-> answer.ok,
     err |-> IF answer.ok THEN "none" ELSE answer.value,
     result |-> IF answer.ok THEN answer.value ELSE None,
     sent |-> <<SessionCall(r.session.id, lower(FactoryVerb(method)), args,
                            answer)>>]

\* try: ... except: of the guess_and_set methods
\* Mutant: the exception is not caught.
Try_NoExcept(out, fallback) == out

Try(out, fallback) == IF out.ok THEN out ELSE fallback

guess_and_set_max_retries(r) ==
    LET value == r.config.max_http_retries
    IN  Try(IF value = Raises THEN Raised(r)
            ELSE IF IsInt(value) THEN set_max_retries(r, value)
            ELSE set_max_retries(r, STD_MAX_RETRIES),
            set_max_retries(r, STD_MAX_RETRIES))

guess_and_set_verify_certificate(r) ==
    LET value == r.config.verify_ssl_certificate
    IN  Try(IF value = Raises THEN Raised(r)
            ELSE IF IsBool(value) THEN set_verify_certificate(r, value)
            ELSE set_verify_certificate(r, STD_VERIFY_CERTIFICATE),
            set_max_retries(r, STD_MAX_RETRIES))

guess_and_set_timeout(r) ==
    LET value == r.config.timeout
    IN  Try(IF value = Raises THEN Raised(r)
            ELSE IF IsNumber(value) THEN set_timeout(r, value)
            ELSE set_timeout(r, STD_TIMEOUT),
            set_timeout(r, STD_TIMEOUT))

guess_and_set_proxy_pattern(r) ==
    LET value == r.config.proxy
    IN  Try(IF value = Raises THEN Raised(r)
            ELSE IF Truthy(value) THEN set_proxy_pattern(r, value)
            ELSE set_proxy_pattern(r, Dict(0)),
            set_proxy_pattern(r, Dict(0)))

\* Requester.set_config: the configuration is stored, nothing else is done
set_config(r, config) == Returned([r EXCEPT !.config = config])

\* The guess_ methods in the order of dir(self), guess_all_settings left out:
\* guess_and_set_max_retries, guess_and_set_proxy_pattern,
\* guess_and_set_timeout, guess_and_set_verify_certificate
RECURSIVE GuessFrom(_, _)
GuessFrom(k, out) ==
    IF ~out.ok \/ k > 4 THEN out
    ELSE GuessFrom(k + 1,
                   CASE k = 1 -> guess_and_set_max_retries(out.r)
                     [] k = 2 -> guess_and_set_proxy_pattern(out.r)
                     [] k = 3 -> guess_and_set_timeout(out.r)
                     [] k = 4 -> guess_and_set_verify_certificate(out.r))

\* Requester.guess_all_settings
guess_all_settings(r) == GuessFrom(1, Returned(r))

\* Box({}, default_box=True)
EmptyConfig ==
    [max_http_retries |-> Missing, verify_ssl_certificate |-> Missing,
     timeout |-> Missing, proxy |-> Missing]

\* self.config = config or Box({}, default_box=True)
InitConfig(r, args) ==
    Returned([r EXCEPT !.config = IF args.config # NoneValue THEN args.config
                                  ELSE EmptyConfig])

InitMaxRetries(r, args) ==
    IF args.max_retries # NoneValue
    THEN set_max_retries(r, args.max_retries)
    ELSE guess_and_set_max_retries(r)

InitVerifyCertificate(r, args) ==
    IF args.verify_certificate # NoneValue
    THEN set_verify_certificate(r, args.verify_certificate)
    ELSE guess_and_set_verify_certificate(r)

InitTimeout(r, args) ==
    IF args.timeout # NoneValue
    THEN set_timeout(r, args.timeout)
    ELSE guess_and_set_timeout(r)

InitMaxRedirects(r, args) ==
    IF args.max_redirects # NoneValue
    THEN set_max_redirects(r, args.max_redirects)
    ELSE Returned(r)

InitDnsQueryTool(r, args) ==
    Returned([r EXCEPT !.dns_query_tool =
                 IF args.dns_query_tool # "none" THEN args.dns_query_tool
                 ELSE "DNSQueryTool()"])

InitProxyPattern(r, args) ==
    IF args.proxy_pattern # NoneValue
    THEN set_proxy_pattern(r, args.proxy_pattern)
    ELSE guess_and_set_proxy_pattern(r)

\* self.session = self.get_session()
InitSession(r) ==
    Returned([r EXCEPT !.session = get_session(r), !.sessions_created = @ + 1])

\* The steps of __init__ from step k on, entered with the outcome out
RECURSIVE InitFrom(_, _, _)
InitFrom(k, out, args) ==
    IF ~out.ok \/ k > 7 THEN out
    ELSE InitFrom(k + 1,
                  CASE k = 1 -> InitMaxRetries(out.r, args)
                    [] k = 2 -> InitVerifyCertificate(out.r, args)
                    [] k = 3 -> InitTimeout(out.r, args)
                    [] k = 4 -> InitMaxRedirects(out.r, args)
                    [] k = 5 -> InitDnsQueryTool(out.r, args)
                    [] k = 6 -> InitProxyPattern(out.r, args)
                    [] k = 7 -> InitSession(out.r),
                  args)

\* Requester.__init__, called with the keyword arguments args (NoneValue
\* for an argument that is not given); a raising setter ends it.
RequesterInit(args) == InitFrom(1, InitConfig(RequesterClass, args), args)

---------------------------------------------------------------------------
(* The rules, netlocs, statuses and live responses the rule engine is run on *)

Rule(pattern, type, transition) ==
    [subject_pattern |-> pattern, validation_type |-> type,
     state_transition |-> transition]

Codes(c) == [required_status_code |-> c]
Headers(m) == [required_headers_patterns |-> m]
Body(m) == [required_body_patterns |-> m]

Anything == <<>>
StartsWithA == <<"a">>

\* Restriction of a rule to some of its keys: the rule with the others missing
Without(rule, key) == [k \in (DOMAIN rule) \ {key} |-> rule[k]]

WellFormedRules ==
    {Rule(Anything, "status_code", t) @@ Codes(<<404>>) : t \in {"up", "down"}}
    \cup {Rule(Anything, "status_code", "up") @@ Codes(<<200, 404>>),
          Rule(StartsWithA, "status_code", "down") @@ Codes(<<200, 404>>),
          Rule(Anything, "status_code", "up") @@ Codes(<<>>)}
    \cup {Rule(Anything, "headers", t) @@ Headers({"h1"}) : t \in {"up", "down"}}
    \cup {Rule(Anything, "headers", "down") @@ Headers({}),
          Rule(Anything, "body", "down") @@ Body({"b1"}),
          Rule(Anything, "body", "up") @@ Body({}),
          Rule(Anything, "headers+body", "down") @@ Headers({"h1"})
            @@ Body({"b1"})}
    \cup {Rule(Anything, "all", "up") @@ Codes(<<404>>) @@ Headers({"h1"})
            @@ Body({"b1"}),
          Rule(Anything, "all", "down") @@ Codes(<<404>>),
          Rule(Anything, "all", "down") @@ Headers({"h1"}),
          Rule(Anything, "all", "up") @@ Body({"b1"}),
          Rule(Anything, "all", "down") @@ Codes(<<>>) @@ Headers({}),
          Rule(Anything, "all", "up")}

MalformedRules ==
    {Without(Rule(Anything, "status_code", "up") @@ Codes(<<404>>), k) :
        k \in RequiredKeys \cup {"required_status_code"}}
    \cup {Without(Rule(Anything, "headers", "down") @@ Headers({"h1"}),
                   "required_headers_patterns")}
    \cup {Rule(Anything, "body", "up"),
          Rule(Anything, "bogus", "up") @@ Codes(<<404>>) @@ Headers({"h1"}),
          Rule(Anything, "status_code", "sideways") @@ Codes(<<404>>)}

Rules == WellFormedRules \cup MalformedRules

RuleLists == UNION {[1..n -> Rules] : n \in 0..MaxRules}

Netlocs == {<<"a", "b">>, <<"b", "a">>}

\* What the pipeline hands to the rule engine: its verdict, the source of the
\* verdict and the status code of the HTTP probe when it ran.
Resolved ==
    {[status |-> UP, status_source |-> "HTTP CODE", http_status_code |-> 200],
     [status |-> DOWN, status_source |-> "STDLOOKUP", http_status_code |-> 404],
     [status |-> DOWN, status_source |-> "DNSLOOKUP",
      http_status_code |-> NoStatusCode]}

\* An AvailabilityCheckerStatus record; object is the identity of the record
\* object, a write to self.status reaching the object self.status names.
Status(verdict, source, code, netloc, url) ==
    [status |-> verdict, status_source |-> source, http_status_code |-> code,
     netloc |-> netloc, url_syntax |-> url, status_after_extra_rules |-> None,
     whois_lookup_record |-> None, object |-> 1]

\* A live response: ok is FALSE when the request failed.
Response(ok, code, headers, body) ==
    [ok |-> ok, status_code |-> code, headers |-> headers, body |-> body]

Responses ==
    {Response(FALSE, NoStatusCode, {}, {}),
     Response(TRUE, 200, {}, {}),
     Response(TRUE, 404, {"h1"}, {}),
     Response(TRUE, 404, {}, {"b1"}),
     Response(TRUE, 404, {"h1"}, {"b1"})}

---------------------------------------------------------------------------
(* The adapters mounted on the session: proxy routing and DNS resolution *)

\* A proxy pair; NoProxy when no proxy applies
Pair(proxy) == [http |-> proxy, https |-> proxy]
NoProxy == Pair("")

ProxyRule(tlds, proxy) == [tld |-> tlds, http |-> proxy, https |-> proxy]

\* The proxy patterns a dict value stands for: "global" is optional, "rules"
\* is an ordered list
ProxyPattern(d) ==
    CASE d.v = 0 -> [rules |-> <<>>]
      [] d.v = 1 -> [global |-> Pair("p1"),
                     rules |-> <<ProxyRule({"io"}, "p2")>>]
      [] d.v = 2 -> [global |-> Pair("p1"),
                     rules |-> <<ProxyRule({"com"}, "p2"),
                                 ProxyRule({"de", "com"}, "p3")>>]
      [] d.v = 3 -> [rules |-> <<ProxyRule({"io"}, "p2"),
                                 ProxyRule({"io", "com"}, "p3")>>]
      [] d.v = 4 -> [global |-> Pair("p1"), rules |-> <<>>]

Hosts == {<<"example", "io">>, <<"example", "com">>, <<"example", "de">>}

\* The TLD of a host: its last label
TLD(host) == host[Len(host)]

\* The first rule, from rule i on, whose tld list holds the TLD; 0 if none
RECURSIVE FirstMatch(_, _, _)
FirstMatch(rules, i, tld) ==
    IF i > Len(rules) THEN 0
    ELSE IF tld \in rules[i].tld THEN i
    ELSE FirstMatch(rules, i + 1, tld)

\* Mutant: the last rule that holds the TLD wins.
ProxyRouter_LastMatch(pattern, host) ==
    LET matches == {i \in 1..Len(pattern.rules) :
                        TLD(host) \in pattern.rules[i].tld}
    IN  IF matches # {}
        THEN LET i == CHOOSE m \in matches : \A n \in matches : n <= m
             IN  Pair(pattern.rules[i].http)
        ELSE IF Has(pattern, "global") THEN pattern.global
        ELSE NoProxy

\* Mutant: without a matching rule no proxy is used.
ProxyRouter_NoGlobal(pattern, host) ==
    LET i == FirstMatch(pattern.rules, 1, TLD(host))
    IN  IF i # 0 THEN Pair(pattern.rules[i].http) ELSE NoProxy

\* ProxyRouter: the proxy pair to apply to a host
ProxyRouter(pattern, host) ==
    LET i == FirstMatch(pattern.rules, 1, TLD(host))
    IN  IF i # 0
        THEN [http |-> pattern.rules[i].http, https |-> pattern.rules[i].https]
        ELSE IF Has(pattern, "global") THEN pattern.global
        ELSE NoProxy

\* What a resolver answers for a host: an address, or no usable address
NoAddress == "no address"
Resolutions == {"192.0.2.1", NoAddress}

\* Mutant: without an address from the resolver, the OS resolves the host.
DnsAwareTransport_OsFallback(session, host, resolution, exchange) ==
    [ok |-> TRUE, value |-> exchange.value,
     resolver |-> IF resolution = NoAddress THEN "os"
                  ELSE session.dns_query_tool,
     address |-> IF resolution = NoAddress THEN "198.51.100.1" ELSE resolution,
     proxy |-> ProxyRouter(ProxyPattern(session.proxy_pattern), host)]

\* DnsAwareTransport: one request of the session to a host. The host is
\* resolved by the resolver the session was built with; without a usable
\* address the request fails with a ConnectionError, otherwise the routed
\* proxy is applied and the exchange gives its answer.
DnsAwareTransport(session, host, resolution, exchange) ==
    IF resolution = NoAddress
    THEN [ok |-> FALSE, value |-> "ConnectionError",
          resolver |-> session.dns_query_tool, address |-> NoAddress,
          proxy |-> NoProxy]
    ELSE [ok |-> exchange.ok, value |-> exchange.value,
          resolver |-> session.dns_query_tool, address |-> resolution,
          proxy |-> ProxyRouter(ProxyPattern(session.proxy_pattern), host)]

---------------------------------------------------------------------------
(* DownloadHelper *)

\* A destination: None, a string (s is its text) or another object
Dest(t, s) == [t |-> t, s |-> s]
NoDestination == Dest("none", "")

FileNames == {"d1", "d2"}
Texts == {"t1", "t2"}
Absent == "absent"

Destinations ==
    {NoDestination, Dest("str", ""), Dest("path", "d1")}
    \cup {Dest("str", f) : f \in FileNames}

\* What self.session.get(self.url, ...) answers: a response, or an exception
\* of the session (ok is FALSE)
DownloadAnswers ==
    [ok : {TRUE}, status_code : {200, 204, 404, 500}, text : Texts]
    \cup {[ok |-> FALSE, status_code |-> 0, text |-> ""]}

\* FileHelper(destination).write(text, overwrite=True)
write(fs, destination, text) == [fs EXCEPT ![destination.s] = text]

\* `destination` as a condition
NotEmpty(destination) ==
    destination.t # "none" /\ ~(destination.t = "str" /\ destination.s = "")

\* Mutant: every 2xx status code is a success.
download_text_Any2xx(fs, destination, req) ==
    IF ~req.ok
    THEN [files |-> fs, ok |-> FALSE, err |-> "ConnectionError", result |-> None]
    ELSE IF req.status_code \in 200..299
    THEN [files |-> IF NotEmpty(destination) /\ destination.t = "str"
                    THEN write(fs, destination, req.text) ELSE fs,
          ok |-> TRUE, err |-> "none", result |-> req.text]
    ELSE [files |-> fs, ok |-> FALSE, err |-> "UnableToDownload",
          result |-> None]

\* DownloadHelper.download_text(destination=destination), req being what
\* the session answers
download_text(fs, destination, req) ==
    IF ~req.ok
    THEN [files |-> fs, ok |-> FALSE, err |-> "ConnectionError", result |-> None]
    ELSE IF req.status_code = 200
    THEN [files |-> IF NotEmpty(destination) /\ destination.t = "str"
                    THEN write(fs, destination, req.text) ELSE fs,
          ok |-> TRUE, err |-> "none", result |-> req.text]
    ELSE [files |-> fs, ok |-> FALSE, err |-> "UnableToDownload",
          result |-> None]

\* No download was made yet
NoDownload ==
    [destination |-> NoDestination,
     answer |-> [ok |-> FALSE, status_code |-> 0, text |-> ""],
     ok |-> TRUE, err |-> "none", result |-> None, calls |-> 0]

\* self._session = None
NoHelperSession == [kind |-> "none"]

\* DownloadHelper(url): the class attributes, which the default arguments of
\* __init__ repeat
DownloadHelperInit ==
    [retries |-> I(3), own_proxy_handler |-> B(TRUE), proxies |-> NoneValue,
     session |-> NoHelperSession]

\* The retries setter
set_retries(h, value) ==
    IF ~IsInt(value) THEN TypeError(h)
    ELSE IF value.v <= 0 THEN ValueError(h)
    ELSE Returned([h EXCEPT !.retries = value])

\* The own_proxy_handler setter: the session is dropped when the value is True
set_own_proxy_handler(h, value) ==
    IF ~IsBool(value) THEN TypeError(h)
    ELSE Returned([h EXCEPT !.own_proxy_handler = value,
                            !.session = IF Truthy(value) THEN NoHelperSession
                                        ELSE @])

\* The proxies setter: the session is dropped when the dict is not empty
set_proxies(h, value) ==
    IF ~IsDict(value) THEN TypeError(h)
    ELSE Returned([h EXCEPT !.proxies = value,
                            !.session = IF Truthy(value) THEN NoHelperSession
                                        ELSE @])

DownloadIdle ==
    /\ files = [f \in FileNames |-> Absent]
    /\ helper = DownloadHelperInit
    /\ download = NoDownload

---------------------------------------------------------------------------
(* SpecRules: start() run, and run again, on a resolved status *)

CheckerIdle ==
    /\ params = [do_syntax_check_first |-> FALSE, use_reputation_lookup |-> FALSE,
                 use_dns_lookup |-> FALSE, use_http_code_lookup |-> FALSE,
                 use_extra_rules |-> FALSE]
    /\ pc = "idle"
    /\ status_post_syntax_checker = None
    /\ trace = <<>>
    /\ probes = [syntax |-> "none", reputation |-> "none", dns |-> "none",
                 http |-> NoStatusCode]

\* No call was made yet
NoCall ==
    [op |-> "none", arg |-> NoneValue, ok |-> TRUE, err |-> "none",
     result |-> None, sent |-> <<>>]

Threads == {1, 2}

\* No thread is inside a call; snapshots is history: the configurations the
\* Requester went through while threads wrote to it.
NoThreads ==
    [pc |-> [t \in Threads |-> "idle"],
     local |-> [t \in Threads |-> NoSession],
     snapshots |-> {}]

RequesterIdle ==
    /\ requester = RequesterClass
    /\ last_call = NoCall
    /\ threads = NoThreads

InitRules ==
    /\ RequesterIdle
    /\ DownloadIdle
    /\ rulesets \in RuleLists
    /\ response \in Responses
    /\ \E r \in Resolved, n \in Netlocs :
        status = Status(r.status, r.status_source, r.http_status_code, n, TRUE)
    /\ observed = status
    /\ live_requests = 0
    /\ checks = <<>>
    /\ raised = FALSE
    /\ runs = 0
    /\ CheckerIdle

\* ExternalRulesHandler(status, rulesets=rulesets).start()
Start ==
    /\ runs < MaxRuns
    /\ ~raised
    /\ LET h == start(Handler(status, live_requests, FALSE), response, rulesets)
       IN  /\ status' = h.status
           /\ live_requests' = h.requests
           /\ checks' = checks \o h.checks
           /\ raised' = h.raised
    /\ runs' = runs + 1
    /\ UNCHANGED <<rulesets, response, observed, checkerVars, requesterVars,
                   downloadVars>>

NextRules == Start

SpecRules == InitRules /\ [][NextRules]_vars

---------------------------------------------------------------------------
(* URLAvailabilityChecker *)

\* PyFunceble.storage.STD_HTTP_CODES.list.up / .potentially_up
HttpCodesUp == {200}
HttpCodesPotentiallyUp == {403}

\* What http_status_code_query_tool.get_status_code() can answer: nothing,
\* the unknown-status sentinel, or a code.
LookupResults == {NoStatusCode, STD_UNKNOWN_STATUS_CODE, 200, 403, 404}

\* AvailabilityCheckerBase.should_we_continue_test: the stages go on unless
\* the status holds a verdict other than the one the syntax probe left.
should_we_continue_test(st, marker) ==
    st.status = None \/ st.status = marker

\* AvailabilityCheckerBase.try_to_query_status_from_syntax_lookup
try_to_query_status_from_syntax_lookup(st, outcome) ==
    IF outcome = "invalid"
    THEN [st EXCEPT !.status = INVALID, !.status_source = "SYNTAX"]
    ELSE st

try_to_query_status_from_reputation(st, outcome) ==
    IF outcome = "malicious"
    THEN [st EXCEPT !.status = UP, !.status_source = "REPUTATION"]
    ELSE st

\* AvailabilityCheckerBase.try_to_query_status_from_dns
base_try_to_query_status_from_dns(st, outcome) ==
    IF outcome = "ok"
    THEN [st EXCEPT !.status = UP, !.status_source = "DNSLOOKUP"]
    ELSE st

\* Mutant: a lookup that indicates up is kept as the verdict.
try_to_query_status_from_dns_KeepsUp(st, outcome) ==
    LET result == base_try_to_query_status_from_dns(st, outcome)
    IN  IF result.status = UP
        THEN result
        ELSE [result EXCEPT !.status = DOWN, !.status_source = "DNSLOOKUP"]

try_to_query_status_from_dns(st, outcome) ==
    LET result == base_try_to_query_status_from_dns(st, outcome)
    IN  IF result.status = UP
        THEN [result EXCEPT !.status = None, !.status_source = None]
        ELSE [result EXCEPT !.status = DOWN, !.status_source = "DNSLOOKUP"]

\* Mutant: only the codes of the up list give a verdict.
try_to_query_status_from_http_status_code_UpOnly(st, lookup_result) ==
    IF lookup_result # NoStatusCode /\ lookup_result # STD_UNKNOWN_STATUS_CODE
    THEN IF lookup_result \in HttpCodesUp
         THEN [st EXCEPT !.http_status_code = lookup_result,
                         !.status = UP, !.status_source = "HTTP CODE"]
         ELSE [st EXCEPT !.http_status_code = lookup_result]
    ELSE [st EXCEPT !.http_status_code = NoStatusCode]

try_to_query_status_from_http_status_code(st, lookup_result) ==
    IF lookup_result # NoStatusCode /\ lookup_result # STD_UNKNOWN_STATUS_CODE
    THEN IF lookup_result \in HttpCodesUp
            \/ lookup_result \in HttpCodesPotentiallyUp
         THEN [st EXCEPT !.http_status_code = lookup_result,
                         !.status = UP, !.status_source = "HTTP CODE"]
         ELSE [st EXCEPT !.http_status_code = lookup_result]
    ELSE [st EXCEPT !.http_status_code = NoStatusCode]

\* AvailabilityCheckerBase.try_to_query_status_from_extra_rules: the
\* external rules are run on the status.
try_to_query_status_from_extra_rules(h, resp, rules) == start(h, resp, rules)

\* The conditions of query_status under which each stage runs
RunsSyntax(p, st) == st.status = None /\ p.do_syntax_check_first

\* Mutant: the reputation probe runs only on a status without a verdict.
RunsReputation_Unresolved(p, st, marker) ==
    p.use_reputation_lookup /\ st.status = None

RunsReputation(p, st, marker) ==
    p.use_reputation_lookup /\ should_we_continue_test(st, marker)

\* Mutant: the DNS probe runs on every URL, whatever was found before.
RunsDns_NoGuard(p, st, marker) == st.url_syntax

RunsDns(p, st, marker) ==
    should_we_continue_test(st, marker) /\ st.url_syntax

\* Mutant: the HTTP probe runs whatever was found before.
RunsHttp_Always(p, st, marker) == TRUE

\* Mutant: the HTTP probe also runs on a status that is already UP.
RunsHttp_WhenUp(p, st, marker) ==
    should_we_continue_test(st, marker) \/ st.status = UP

RunsHttp(p, st, marker) == should_we_continue_test(st, marker)

\* Mutant: the fallback is left out.
Fallback_Missing(st) == st

\* Mutant: the fallback leaves a URL without a verdict.
Fallback_UnlessUrl(st) ==
    IF st.status = None /\ ~st.url_syntax
    THEN [st EXCEPT !.status = DOWN, !.status_source = "STDLOOKUP"]
    ELSE st

\* if not self.status.status: DOWN / STDLOOKUP
Fallback(st) ==
    IF st.status = None
    THEN [st EXCEPT !.status = DOWN, !.status_source = "STDLOOKUP"]
    ELSE st

RunsExtraRules(p) == p.use_extra_rules

---------------------------------------------------------------------------
(* SpecChecker: subject_propagator, then query_status stage by stage *)

Flags ==
    [do_syntax_check_first : BOOLEAN, use_reputation_lookup : BOOLEAN,
     use_dns_lookup : BOOLEAN, use_http_code_lookup : BOOLEAN,
     use_extra_rules : BOOLEAN]

NoProbe ==
    [syntax |-> "none", reputation |-> "none", dns |-> "none",
     http |-> NoStatusCode]

\* The rulesets the checker is configured with
CheckerRuleLists ==
    {<<>>,
     <<Rule(Anything, "status_code", "up") @@ Codes(<<404>>)>>,
     <<Rule(Anything, "status_code", "down") @@ Codes(<<200, 404>>)>>,
     <<Rule(Anything, "headers", "up") @@ Headers({"h1"})>>,
     <<Rule(Anything, "all", "down") @@ Codes(<<404>>) @@ Body({"b1"})>>,
     <<Rule(StartsWithA, "body", "down") @@ Body({"b1"})>>}

\* The status record subject_propagator builds
FreshStatus(netloc, url) == Status(None, None, NoStatusCode, netloc, url)

\* self.status = AvailabilityCheckerStatus(): a new record object, another
\* one than the record the checker holds, which the caller of the previous
\* check keeps
NewObject(held) == IF held = 1 THEN 2 ELSE 1

\* Mutant: the HTTP status code of the previous record is carried over.
PropagatedStatus_KeepsCode(held, netloc, url) ==
    [FreshStatus(netloc, url) EXCEPT
        !.object = NewObject(held.object),
        !.http_status_code = held.http_status_code]

\* The record subject_propagator leaves in self.status, held being the
\* record of the previous subject
PropagatedStatus(held, netloc, url) ==
    [FreshStatus(netloc, url) EXCEPT !.object = NewObject(held.object)]

InitChecker ==
    /\ RequesterIdle
    /\ DownloadIdle
    /\ params \in Flags
    /\ rulesets \in CheckerRuleLists
    /\ (~params.use_extra_rules => rulesets = <<>>)
    /\ \E n \in Netlocs, url \in BOOLEAN : status = FreshStatus(n, url)
    /\ pc = "syntax"
    /\ status_post_syntax_checker = None
    /\ trace = <<>>
    /\ probes = NoProbe
    /\ response = Response(FALSE, NoStatusCode, {}, {})
    /\ live_requests = 0
    /\ checks = <<>>
    /\ raised = FALSE
    /\ runs = 0
    /\ observed = status

\* A new subject is set: subject_propagator builds a fresh status record.
subject_propagator ==
    /\ pc = "done"
    /\ \E n \in Netlocs, url \in BOOLEAN :
        status' = PropagatedStatus(status, n, url)
    /\ pc' = "syntax"
    /\ status_post_syntax_checker' = None
    /\ trace' = <<>>
    /\ probes' = NoProbe
    /\ live_requests' = 0
    /\ checks' = <<>>
    /\ raised' = FALSE
    /\ runs' = 0
    /\ observed' = status'
    /\ UNCHANGED <<requesterVars, downloadVars, params, rulesets, response>>

QuerySyntax ==
    /\ pc = "syntax"
    /\ IF RunsSyntax(params, status)
       THEN \E outcome \in {"valid", "invalid"} :
            /\ status' = try_to_query_status_from_syntax_lookup(status, outcome)
            /\ status_post_syntax_checker' = status'.status
            /\ trace' = Append(trace, "syntax")
            /\ probes' = [probes EXCEPT !.syntax = outcome]
       ELSE UNCHANGED <<status, status_post_syntax_checker, trace, probes>>
    /\ pc' = "reputation"
    /\ UNCHANGED <<requesterVars, downloadVars, params, rulesVars>>

QueryReputation ==
    /\ pc = "reputation"
    /\ IF RunsReputation(params, status, status_post_syntax_checker)
       THEN \E outcome \in {"clean", "malicious"} :
            /\ status' = try_to_query_status_from_reputation(status, outcome)
            /\ trace' = Append(trace, "reputation")
            /\ probes' = [probes EXCEPT !.reputation = outcome]
       ELSE UNCHANGED <<status, trace, probes>>
    /\ pc' = "dns"
    /\ UNCHANGED <<requesterVars, downloadVars, params, status_post_syntax_checker, rulesVars>>

QueryDns ==
    /\ pc = "dns"
    /\ IF RunsDns(params, status, status_post_syntax_checker)
       THEN \E outcome \in {"ok", "fail"} :
            /\ status' = try_to_query_status_from_dns(status, outcome)
            /\ trace' = Append(trace, "dns")
            /\ probes' = [probes EXCEPT !.dns = outcome]
       ELSE UNCHANGED <<status, trace, probes>>
    /\ pc' = "http"
    /\ UNCHANGED <<requesterVars, downloadVars, params, status_post_syntax_checker, rulesVars>>

QueryHttp ==
    /\ pc = "http"
    /\ IF RunsHttp(params, status, status_post_syntax_checker)
       THEN \E lookup_result \in LookupResults :
            /\ status' = try_to_query_status_from_http_status_code(
                             status, lookup_result)
            /\ trace' = Append(trace, "http")
            /\ probes' = [probes EXCEPT !.http = lookup_result]
       ELSE UNCHANGED <<status, trace, probes>>
    /\ pc' = "fallback"
    /\ UNCHANGED <<requesterVars, downloadVars, params, status_post_syntax_checker, rulesVars>>

QueryFallback ==
    /\ pc = "fallback"
    /\ status' = Fallback(status)
    /\ trace' = IF status'.status_source = "STDLOOKUP" /\ status.status = None
                THEN Append(trace, "fallback") ELSE trace
    /\ pc' = "rules"
    /\ UNCHANGED <<requesterVars, downloadVars, params, status_post_syntax_checker, probes, rulesVars>>

QueryExtraRules ==
    /\ pc = "rules"
    /\ IF RunsExtraRules(params)
       THEN \E resp \in Responses :
            LET h == try_to_query_status_from_extra_rules(
                         Handler(status, 0, FALSE), resp, rulesets)
            IN  /\ status' = h.status
                /\ live_requests' = h.requests
                /\ checks' = h.checks
                /\ raised' = h.raised
                /\ response' = resp
                /\ observed' = status
                /\ runs' = 1
                /\ trace' = Append(trace, "rules")
       ELSE UNCHANGED <<status, live_requests, checks, raised, response,
                        observed, runs, trace>>
    /\ pc' = "done"
    /\ UNCHANGED <<requesterVars, downloadVars, params, status_post_syntax_checker, probes, rulesets>>

NextChecker ==
    \/ subject_propagator
    \/ QuerySyntax
    \/ QueryReputation
    \/ QueryDns
    \/ QueryHttp
    \/ QueryFallback
    \/ QueryExtraRules

SpecChecker == InitChecker /\ [][NextChecker]_vars

---------------------------------------------------------------------------
(* SpecRequester: a Requester is constructed, configured and used *)

MaxRetriesValues == {I(0 - 1), I(0), I(2), B(TRUE), Str}
VerifyValues == {B(TRUE), B(FALSE), I(1)}
TimeoutValues == {I(0 - 1), I(0), F(7), Str}
MaxRedirectsValues == {I(0), I(1), I(60), Str}
ProxyValues == {Dict(0), Dict(1), Str}
DnsQueryTools == {"resolver1", "resolver2"}

Configs ==
    {EmptyConfig,
     [max_http_retries |-> I(2), verify_ssl_certificate |-> B(TRUE),
      timeout |-> F(7), proxy |-> Dict(1)],
     [max_http_retries |-> I(0 - 1), verify_ssl_certificate |-> Raises,
      timeout |-> I(0 - 1), proxy |-> Str],
     [max_http_retries |-> Raises, verify_ssl_certificate |-> Str,
      timeout |-> Raises, proxy |-> Raises],
     [max_http_retries |-> Raises, verify_ssl_certificate |-> Raises,
      timeout |-> Raises, proxy |-> Raises]}

Optional(values) == values \cup {NoneValue}

Verbs == {"get", "options", "head", "post", "put", "patch", "delete"}

\* The headers a caller sets, the arguments of a request and what a session
\* answers to a call
HeadersValues == {{"Accept"}, {}}
Response1 == [ok |-> TRUE, value |-> "response1"]
Response2 == [ok |-> TRUE, value |-> "response2"]
ConnectionError == [ok |-> FALSE, value |-> "ConnectionError"]
\* A request: its arguments and the answer of the session
Exchanges ==
    {[args |-> <<"url1">>, answer |-> Response1],
     [args |-> <<"url2", "allow_redirects=False">>, answer |-> Response2],
     [args |-> <<"url1">>, answer |-> ConnectionError]}

UncheckedOthers ==
    UNCHANGED <<status, rulesVars, checkerVars, downloadVars, threads>>

InitRequester ==
    /\ RequesterIdle
    /\ DownloadIdle
    /\ rulesets = <<>>
    /\ response = Response(FALSE, NoStatusCode, {}, {})
    /\ status = FreshStatus(<<"a", "b">>, TRUE)
    /\ observed = status
    /\ live_requests = 0
    /\ checks = <<>>
    /\ raised = FALSE
    /\ runs = 0
    /\ CheckerIdle

\* A call that reaches no session: the constructor or a setter
Call(op, arg, out) ==
    /\ requester' = out.r
    /\ last_call' = [op |-> op, arg |-> arg, ok |-> out.ok, err |-> out.err,
                     result |-> None, sent |-> <<>>]
    /\ UncheckedOthers

Constructed == requester.session # NoSession

\* The keyword arguments __init__ is called with
InitArgs ==
    [max_retries : Optional(MaxRetriesValues),
     verify_certificate : Optional(VerifyValues),
     timeout : Optional(TimeoutValues),
     max_redirects : Optional(MaxRedirectsValues),
     dns_query_tool : DnsQueryTools \cup {"none"},
     proxy_pattern : Optional(ProxyValues),
     config : Optional(Configs)]

\* Requester(max_retries=..., ..., config=...): the first call on the object;
\* a constructor that raises leaves no object to call.
Construct ==
    /\ ~Constructed
    /\ last_call = NoCall
    /\ \E args \in InitArgs :
        LET out == RequesterInit(args)
        IN  Call("__init__", args,
                 IF out.ok THEN out ELSE [out EXCEPT !.r = requester])

\* The keyword arguments of Requester() and Requester(config=config) for a
\* configuration that holds a value for every field
NoArgs ==
    [max_retries |-> NoneValue, verify_certificate |-> NoneValue,
     timeout |-> NoneValue, max_redirects |-> NoneValue,
     dns_query_tool |-> "none", proxy_pattern |-> NoneValue,
     config |-> NoneValue]

CompleteConfig ==
    [max_http_retries |-> I(2), verify_ssl_certificate |-> B(TRUE),
     timeout |-> F(7), proxy |-> Dict(1)]

\* Requester() or Requester(config=config): every field is guessed
ConstructFromConfig ==
    /\ ~Constructed
    /\ last_call = NoCall
    /\ \E args \in {NoArgs, [NoArgs EXCEPT !.config = CompleteConfig]} :
        LET out == RequesterInit(args)
        IN  Call("__init__", args,
                 IF out.ok THEN out ELSE [out EXCEPT !.r = requester])

CanRebuild == requester.sessions_created < MaxSessions

SetMaxRetries ==
    /\ Constructed /\ CanRebuild
    /\ \E value \in MaxRetriesValues :
        Call("max_retries", value, set_max_retries(requester, value))

SetMaxRedirects ==
    /\ Constructed /\ CanRebuild
    /\ \E value \in MaxRedirectsValues :
        Call("max_redirects", value, set_max_redirects(requester, value))

SetVerifyCertificate ==
    /\ Constructed /\ CanRebuild
    /\ \E value \in VerifyValues :
        Call("verify_certificate", value, set_verify_certificate(requester, value))

SetTimeout ==
    /\ Constructed /\ CanRebuild
    /\ \E value \in TimeoutValues :
        Call("timeout", value, set_timeout(requester, value))

SetProxyPattern ==
    /\ Constructed /\ CanRebuild
    /\ \E value \in ProxyValues :
        Call("proxy_pattern", value, set_proxy_pattern(requester, value))

\* requester.headers = value
SetHeaders ==
    /\ Constructed /\ CanRebuild
    /\ \E value \in HeadersValues :
        Call("headers", value, set_headers(requester, value))

\* requester.get(*args) / options / head / post / put / patch / delete,
\* with what the session answers
Request ==
    /\ Constructed
    /\ \E method \in Verbs, x \in Exchanges :
        LET out == request_factory(requester, method, x.args, x.answer)
        IN  /\ requester' = out.r
            /\ last_call' = [op |-> method, arg |-> x.args, ok |-> out.ok,
                             err |-> out.err, result |-> out.result,
                             sent |-> out.sent]
            /\ UncheckedOthers

NextRequester ==
    \/ ConstructFromConfig
    \/ SetMaxRetries
    \/ SetMaxRedirects
    \/ SetVerifyCertificate
    \/ SetTimeout
    \/ SetProxyPattern
    \/ SetHeaders
    \/ Request

SpecRequester == InitRequester /\ [][NextRequester]_vars

---------------------------------------------------------------------------
(* SpecConstruct: a Requester is constructed, with any keyword arguments *)

NextConstruct == Construct

SpecConstruct == InitRequester /\ [][NextConstruct]_vars

---------------------------------------------------------------------------
(* SpecSettings: a Requester is constructed with explicit values, is given *)
(* a configuration and guesses all its settings                            *)

\* Keyword arguments that are absent or hold a value the setter accepts
ExplicitArgs ==
    [max_retries : {NoneValue, I(0)},
     verify_certificate : {NoneValue, B(TRUE)},
     timeout : {NoneValue, F(7)},
     max_redirects : {NoneValue, I(1)},
     dns_query_tool : {"resolver1"},
     proxy_pattern : {NoneValue, Dict(1)},
     config : Optional(Configs)]

ConstructExplicit ==
    /\ ~Constructed
    /\ last_call = NoCall
    /\ \E args \in ExplicitArgs :
        Call("__init__", args, RequesterInit(args))

\* requester.set_config(config)
SetConfig ==
    /\ Constructed
    /\ \E config \in Configs :
        Call("set_config", config, set_config(requester, config))

\* requester.guess_all_settings()
GuessAllSettings ==
    /\ Constructed /\ CanRebuild
    /\ Call("guess_all_settings", NoneValue, guess_all_settings(requester))

NextSettings ==
    \/ ConstructExplicit
    \/ SetConfig
    \/ GuessAllSettings

SpecSettings == InitRequester /\ [][NextSettings]_vars

---------------------------------------------------------------------------
(* DownloadHelper: its session *)

\* Requester(proxy_pattern=self.proxies), as the session of the helper: its
\* kind, the proxies it routes with and the retries of its adapters
RequesterSession(h) ==
    LET r == RequesterInit([NoArgs EXCEPT !.proxy_pattern = h.proxies]).r
    IN  [kind |-> "Requester", proxies |-> r.proxy_pattern,
         retries |-> r.max_retries]

\* requests.Session() with self.proxies and an HTTPAdapter mounted with
\* Retry(total=self.retries)
PlainSession(h) ==
    [kind |-> "Session", proxies |-> h.proxies, retries |-> h.retries]

\* The property DownloadHelper.session: the helper it leaves, the session
\* being built when there is none
DownloadHelper_session(h) ==
    IF h.session = NoHelperSession
    THEN [h EXCEPT !.session = IF Truthy(h.own_proxy_handler)
                                THEN RequesterSession(h)
                                ELSE PlainSession(h)]
    ELSE h

---------------------------------------------------------------------------
(* SpecDownload: download_text is called, again and again *)

InitDownload == InitRequester

\* DownloadHelper(url).download_text(destination=destination)
DownloadText ==
    /\ \E destination \in Destinations, req \in DownloadAnswers :
        LET out == download_text(files, destination, req)
        IN  /\ files' = out.files
            /\ helper' = DownloadHelper_session(helper)
            /\ download' = [destination |-> destination, answer |-> req,
                            ok |-> out.ok, err |-> out.err,
                            result |-> out.result, calls |-> 1]
    /\ UNCHANGED <<status, rulesVars, checkerVars, requesterVars>>

NextDownload == DownloadText

SpecDownload == InitDownload /\ [][NextDownload]_vars

---------------------------------------------------------------------------
(* SpecHelper: the retries, the proxy handler and the proxies of a         *)
(* DownloadHelper are set between its downloads                            *)

RetriesValues == {I(0), I(1), I(5), Str}
OwnProxyHandlerValues == {B(TRUE), B(FALSE), I(1)}
ProxiesValues == {Dict(0), Dict(1), NoneValue}

\* A setter call on the helper: an exception leaves the helper as it was
HelperCall(out) ==
    /\ helper' = out.r
    /\ UNCHANGED <<status, rulesVars, checkerVars, requesterVars, files,
                   download>>

SetRetries == \E value \in RetriesValues : HelperCall(set_retries(helper, value))

SetOwnProxyHandler ==
    \E value \in OwnProxyHandlerValues :
        HelperCall(set_own_proxy_handler(helper, value))

SetProxies == \E value \in ProxiesValues : HelperCall(set_proxies(helper, value))

NextHelper ==
    \/ SetRetries
    \/ SetOwnProxyHandler
    \/ SetProxies
    \/ DownloadText

SpecHelper == InitDownload /\ [][NextHelper]_vars

---------------------------------------------------------------------------
(* SpecTransport: requests of a Requester to hosts, between changes of its *)
(* resolver and of its proxy pattern                                       *)

RoutingValues == {Dict(0), Dict(1), Dict(2), Dict(3), Dict(4)}

\* Requester(dns_query_tool=..., proxy_pattern=...)
ConstructTransport ==
    /\ ~Constructed
    /\ last_call = NoCall
    /\ \E tool \in DnsQueryTools, pattern \in RoutingValues :
        LET args == [NoArgs EXCEPT !.dns_query_tool = tool,
                                   !.proxy_pattern = pattern]
        IN  Call("__init__", args, RequesterInit(args))

\* requester.dns_query_tool = tool: an attribute without a setter
SetDnsQueryTool ==
    /\ Constructed
    /\ \E tool \in DnsQueryTools :
        Call("dns_query_tool", tool,
             Returned([requester EXCEPT !.dns_query_tool = tool]))

\* requester.proxy_pattern = pattern
SetRouting ==
    /\ Constructed /\ CanRebuild
    /\ \E pattern \in RoutingValues :
        Call("proxy_pattern", pattern, set_proxy_pattern(requester, pattern))

\* requester.get(url) and the other verbs, the session carrying the request
\* to the host of the url
TransportRequest ==
    /\ Constructed
    /\ \E method \in {"get", "head"}, host \in Hosts,
          resolution \in Resolutions, exchange \in {Response1, ConnectionError} :
        LET answer == DnsAwareTransport(requester.session, host, resolution,
                                        exchange)
            out == request_factory(requester, method, host, answer)
        IN  /\ requester' = out.r
            /\ last_call' = [op |-> method, arg |-> host, ok |-> out.ok,
                             err |-> out.err, result |-> out.result,
                             sent |-> out.sent]
            /\ UncheckedOthers

NextTransport ==
    \/ ConstructTransport
    \/ SetDnsQueryTool
    \/ SetRouting
    \/ TransportRequest

SpecTransport == InitRequester /\ [][NextTransport]_vars

---------------------------------------------------------------------------
(* SpecThreads: threads call setters and requests on the same Requester;   *)
(* a thread can be preempted between the statements of recreate_session    *)
(* and of get_session, which take no lock                                  *)

\* The setter calls of the threads: the field and a value its setter accepts
ThreadWrites ==
    {[op |-> "verify_certificate", value |-> B(TRUE)],
     [op |-> "verify_certificate", value |-> B(FALSE)],
     [op |-> "max_retries", value |-> I(0)],
     [op |-> "max_retries", value |-> I(2)]}

\* func(self, value) of the wrapper, for a value the setter accepts:
\* self._verify_certificate = value / self._max_retries = value
StoreField(r, op, value) ==
    IF op = "verify_certificate" THEN [r EXCEPT !.verify_certificate = value]
    ELSE [r EXCEPT !.max_retries = value]

\* The configuration a Requester holds, and the one a session was built from
FieldsOf(r) ==
    [verify |-> r.verify_certificate, max_redirects |-> r.max_redirects,
     max_retries |-> r.max_retries, timeout |-> r.timeout,
     proxy_pattern |-> r.proxy_pattern]

BuiltFrom(session) ==
    [verify |-> session.verify, max_redirects |-> session.max_redirects,
     max_retries |-> session.max_retries, timeout |-> session.timeout,
     proxy_pattern |-> session.proxy_pattern]

\* Setter calls that have stored their value and not yet created a session
Pending == Cardinality({t \in Threads : threads.pc[t] = "stored"})

\* wrapper of recreate_session, first statement: result = func(self, value)
ThreadSetter(t) ==
    /\ Constructed
    /\ threads.pc[t] = "idle"
    /\ requester.sessions_created + Pending < MaxSessions
    /\ \E w \in ThreadWrites :
        /\ requester' = StoreField(requester, w.op, w.value)
        /\ threads' = [threads EXCEPT
                          !.pc[t] = "stored",
                          !.snapshots = @ \cup {FieldsOf(requester),
                                                FieldsOf(requester')}]
    /\ UNCHANGED <<status, rulesVars, checkerVars, downloadVars, last_call>>

\* get_session, entered from the wrapper: session = requests.Session() and
\* session.verify = self.verify_certificate
ThreadGetSessionVerify(t) ==
    /\ threads.pc[t] = "stored"
    /\ requester' = [requester EXCEPT !.sessions_created = @ + 1]
    /\ threads' = [threads EXCEPT
                      !.pc[t] = "verify",
                      !.local[t] = [id |-> requester.sessions_created + 1,
                                    verify |-> requester.verify_certificate]]
    /\ UNCHANGED <<status, rulesVars, checkerVars, downloadVars, last_call>>

\* get_session, the rest: max_redirects, the adapters mounted with the
\* fields as they are now, the headers
ThreadGetSessionMount(t) ==
    /\ threads.pc[t] = "verify"
    /\ threads' = [threads EXCEPT
                      !.pc[t] = "built",
                      !.local[t] = [get_session(requester) EXCEPT
                                       !.id = threads.local[t].id,
                                       !.verify = threads.local[t].verify]]
    /\ UNCHANGED <<status, rulesVars, checkerVars, downloadVars, last_call,
                   requester>>

\* wrapper of recreate_session: self.session = <the session get_session
\* returned>, and the call returns
ThreadAssignSession(t) ==
    /\ threads.pc[t] = "built"
    /\ requester' = [requester EXCEPT !.session = threads.local[t],
                                      !.replaced = Retired(requester.session)]
    /\ threads' = [threads EXCEPT !.pc[t] = "idle", !.local[t] = NoSession]
    /\ UNCHANGED <<status, rulesVars, checkerVars, downloadVars, last_call>>

\* requester.get(url) from a thread that is in no setter: the request runs
\* on the session that is self.session now
ThreadRequest(t) ==
    /\ Constructed
    /\ threads.pc[t] = "idle"
    /\ LET out == request_factory(requester, "get", <<"url1">>, Response1)
       IN  last_call' = [op |-> "get", arg |-> <<"url1">>, ok |-> out.ok,
                         err |-> out.err, result |-> out.result,
                         sent |-> out.sent]
    /\ UNCHANGED <<status, rulesVars, checkerVars, downloadVars, requester,
                   threads>>

NextThreads ==
    \/ ConstructFromConfig
    \/ \E t \in Threads : ThreadSetter(t)
    \/ \E t \in Threads : ThreadGetSessionVerify(t)
    \/ \E t \in Threads : ThreadGetSessionMount(t)
    \/ \E t \in Threads : ThreadAssignSession(t)
    \/ \E t \in Threads : ThreadRequest(t)

SpecThreads == InitRequester /\ [][NextThreads]_vars

---------------------------------------------------------------------------
(* Properties of the rule engine *)

Verdict(transition) == IF transition = "up" THEN UP ELSE DOWN

\* The handler as the first start() found it
Observed == Handler(observed, 0, FALSE)

\* The rule, alone in a ruleset, switches the observed status
FiresAlone(rule) ==
    start(Observed, response, <<rule>>).status.status_after_extra_rules # None

Switched(st, transition) ==
    /\ st.status = Verdict(transition)
    /\ st.status_source = "EXTRA_RULES"
    /\ st.status_after_extra_rules = Verdict(transition)

PayloadKeys(type) ==
    IF type = "status_code" THEN {"required_status_code"}
    ELSE IF type = "headers" THEN {"required_headers_patterns"}
    ELSE IF type = "body" THEN {"required_body_patterns"}
    ELSE IF type = "headers+body"
    THEN {"required_headers_patterns", "required_body_patterns"}
    ELSE {}

IsMalformed(rule) ==
    \/ \E k \in RequiredKeys : ~Has(rule, k)
    \/ rule.validation_type
         \notin {"status_code", "headers", "body", "headers+body", "all"}
    \/ rule.state_transition \notin {"up", "down"}
    \/ \E k \in PayloadKeys(rule.validation_type) : ~Has(rule, k)

IsWellFormed(rule) == ~IsMalformed(rule)

AllWellFormed(rules) == \A i \in 1..Len(rules) : IsWellFormed(rules[i])

\* C5: when two rules of the ruleset would each switch the observed status,
\* to contradictory verdicts, start() leaves the verdict of the first rule of
\* the list that switches; the later rule changes nothing.
C5_FirstRuleWins ==
    runs = 1 =>
        \A i, j \in 1..Len(rulesets) :
            ( /\ i < j
              /\ FiresAlone(rulesets[i])
              /\ FiresAlone(rulesets[j])
              /\ rulesets[i].state_transition # rulesets[j].state_transition
              /\ \A k \in 1..(i - 1) : ~FiresAlone(rulesets[k]) )
            => Switched(status, rulesets[i].state_transition)

C5_Witness ==
    /\ runs = 1
    /\ Len(rulesets) = 2
    /\ FiresAlone(rulesets[1])
    /\ FiresAlone(rulesets[2])
    /\ rulesets[1].state_transition = "down"
    /\ rulesets[2].state_transition = "up"
    /\ status.status = DOWN

\* C6: a well-formed `headers+body` rule whose subject pattern matches
\* switches the status as configured when the live response matches its
\* header patterns or its body patterns.
C6_HeadersBodyEitherFires ==
    ( /\ runs = 1
      /\ Len(rulesets) = 1
      /\ IsWellFormed(rulesets[1])
      /\ rulesets[1].validation_type = "headers+body"
      /\ RegexMatch(rulesets[1].subject_pattern, observed.netloc)
      /\ response.ok
      /\ \/ (rulesets[1].required_headers_patterns \cap response.headers) # {}
         \/ (rulesets[1].required_body_patterns \cap response.body) # {} )
    => Switched(status, rulesets[1].state_transition)

\* C7: a `status_code` rule switches the status as configured exactly when
\* the observed http_status_code is one of required_status_code; otherwise
\* the status is left as it was observed.
C7_StatusCodeRule ==
    ( /\ runs = 1
      /\ Len(rulesets) = 1
      /\ IsWellFormed(rulesets[1])
      /\ rulesets[1].validation_type = "status_code"
      /\ RegexMatch(rulesets[1].subject_pattern, observed.netloc) )
    => IF \E i \in 1..Len(rulesets[1].required_status_code) :
            observed.http_status_code = rulesets[1].required_status_code[i]
       THEN Switched(status, rulesets[1].state_transition)
       ELSE status = observed

C7_Witness ==
    /\ runs = 1
    /\ Len(rulesets) = 1
    /\ IsWellFormed(rulesets[1])
    /\ rulesets[1].validation_type = "status_code"
    /\ rulesets[1].required_status_code = <<200, 404>>
    /\ observed.http_status_code = 404
    /\ status.status_source = "EXTRA_RULES"

\* C8: start() never raises on a malformed rule, and the malformed rules of
\* a ruleset change nothing: the status is the one the same ruleset without
\* them yields.
C8_MalformedSkipped ==
    runs = 1 =>
        /\ ~raised
        /\ status = start(Observed, response,
                          SelectSeq(rulesets, IsWellFormed)).status

C8_Witness ==
    /\ runs = 1
    /\ Len(rulesets) = 2
    /\ IsMalformed(rulesets[1])
    /\ ~Has(rulesets[1], "state_transition")
    /\ status.status_after_extra_rules # None
    /\ ~raised

\* C9: for a well-formed ruleset, a second run of start() on the status the
\* first run left, with the same live responses, leaves verdict, source and
\* terminal flag as the first run left them.
C9_Idempotent ==
    [][ (runs >= 1 /\ runs' = runs + 1 /\ AllWellFormed(rulesets))
        => /\ status'.status = status.status
           /\ status'.status_source = status.status_source
           /\ status'.status_after_extra_rules = status.status_after_extra_rules
      ]_vars

C9_Witness ==
    /\ runs = 2
    /\ Len(rulesets) = 2
    /\ AllWellFormed(rulesets)
    /\ status.status_after_extra_rules # None
    /\ status.status # observed.status

---------------------------------------------------------------------------
(* Properties of the pipeline *)

AllProbesDisabled ==
    /\ ~params.do_syntax_check_first
    /\ ~params.use_reputation_lookup
    /\ ~params.use_dns_lookup
    /\ ~params.use_http_code_lookup
    /\ ~params.use_extra_rules

\* No probe that ran found anything that decides, and no rule switched
NothingDecided ==
    /\ probes.syntax # "invalid"
    /\ probes.reputation # "malicious"
    /\ probes.dns # "fail"
    /\ probes.http \notin (HttpCodesUp \cup HttpCodesPotentiallyUp)
    /\ status.status_after_extra_rules = None

\* C1: when query_status returns, the status is set; when nothing decided
\* it, the status is DOWN with source STDLOOKUP.
C1_AlwaysTerminal ==
    pc = "done" =>
        /\ status.status # None
        /\ NothingDecided =>
             (status.status = DOWN /\ status.status_source = "STDLOOKUP")

C1_Witness ==
    /\ pc = "done"
    /\ NothingDecided
    /\ trace = <<"syntax", "reputation", "dns", "http", "fallback", "rules">>
    /\ status.status_source = "STDLOOKUP"

\* C2: for a URL subject, with the rule engine disabled, a failed DNS lookup
\* ends in DOWN with source DNSLOOKUP.
C2_DnsDownSwitch ==
    ( /\ pc = "done"
      /\ status.url_syntax
      /\ ~params.use_extra_rules
      /\ probes.dns = "fail" )
    => (status.status = DOWN /\ status.status_source = "DNSLOOKUP")

C2_Witness ==
    /\ pc = "done"
    /\ status.url_syntax
    /\ ~params.use_extra_rules
    /\ params.use_http_code_lookup
    /\ probes.dns = "fail"
    /\ status.status_source = "DNSLOOKUP"

\* C3: with the reputation lookup enabled and the rule engine disabled, a
\* subject the reputation probe finds malicious ends in UP with source
\* REPUTATION.
C3_ReputationFirst ==
    ( /\ pc = "done"
      /\ params.use_reputation_lookup
      /\ ~params.use_extra_rules
      /\ probes.reputation = "malicious" )
    => (status.status = UP /\ status.status_source = "REPUTATION")

C3_Witness ==
    /\ pc = "done"
    /\ params.use_reputation_lookup
    /\ params.use_http_code_lookup
    /\ ~params.use_extra_rules
    /\ status.url_syntax
    /\ probes.reputation = "malicious"
    /\ status.status_source = "REPUTATION"

\* C4: with every optional probe disabled, query_status ends in DOWN with
\* source STDLOOKUP.
C4_FallbackTotality ==
    (pc = "done" /\ AllProbesDisabled)
    => (status.status = DOWN /\ status.status_source = "STDLOOKUP")

---------------------------------------------------------------------------
(* Properties of the Requester *)

Setters ==
    {"max_retries", "max_redirects", "verify_certificate", "timeout",
     "proxy_pattern"}

\* The session was built from the present values of the five fields
BuiltFromFields(r) ==
    /\ r.session.timeout = r.timeout
    /\ r.session.max_retries = r.max_retries
    /\ r.session.max_redirects = r.max_redirects
    /\ r.session.verify = r.verify_certificate
    /\ r.session.proxy_pattern = r.proxy_pattern

\* C10: every setter call that returns leaves a session that is another
\* object than the one before the call and that was built from the present
\* values of timeout, max_retries, max_redirects, verify_certificate and
\* proxy_pattern; a request runs on that session.
C10_SessionRebuilt ==
    [][ /\ (last_call'.op \in Setters /\ last_call'.ok)
            => /\ requester'.session.id # requester.session.id
               /\ BuiltFromFields(requester')
        /\ (last_call'.op \in Verbs)
            => /\ requester'.session = requester.session
               /\ BuiltFromFields(requester')
      ]_vars

C10_Witness ==
    /\ last_call.op \in Verbs
    /\ requester.sessions_created = 4
    /\ requester.timeout = F(7)
    /\ requester.max_retries = I(0)
    /\ requester.max_redirects = I(1)
    /\ requester.proxy_pattern = Dict(1)
    /\ requester.verify_certificate = B(TRUE)
    /\ BuiltFromFields(requester)

\* The values each guarded setter is specified to accept; an int is a Python
\* int (a bool is one), a number an int or a float.
Accepts(op, value) ==
    CASE op = "timeout" -> value.t \in {"int", "bool", "float"} /\ value.v >= 0
      [] op = "max_retries" -> value.t \in {"int", "bool"} /\ value.v >= 0
      [] op = "max_redirects" -> value.t \in {"int", "bool"} /\ value.v >= 1
      [] op = "proxy_pattern" -> value.t = "dict"

\* The field a setter writes
Field(r, op) ==
    CASE op = "timeout" -> r.timeout
      [] op = "max_retries" -> r.max_retries
      [] op = "max_redirects" -> r.max_redirects
      [] op = "proxy_pattern" -> r.proxy_pattern

Guarded == {"timeout", "max_retries", "max_redirects", "proxy_pattern"}

NoExplicitValue(args) ==
    /\ args.max_retries = NoneValue
    /\ args.verify_certificate = NoneValue
    /\ args.timeout = NoneValue

\* A configuration entry that is missing or whose lookup raises
Unreadable(entry) == entry \in {Missing, Raises}

\* The configuration is absent, or each of its three entries is missing,
\* raises when read or holds a value of the wrong type
AbsentOrMalformed(config) ==
    \/ config = NoneValue
    \/ /\ config # NoneValue
       /\ Unreadable(config.max_http_retries)
            \/ config.max_http_retries.t \notin {"int", "bool"}
       /\ Unreadable(config.verify_ssl_certificate)
            \/ config.verify_ssl_certificate.t # "bool"
       /\ Unreadable(config.timeout)
            \/ config.timeout.t \notin {"int", "bool", "float"}

\* C12: a Requester constructed without explicit values, from an absent or
\* malformed configuration, has verify_certificate = False, timeout = 3.0
\* and max_retries = 3.
C12_FallbackDefaults ==
    ( /\ last_call.op = "__init__"
      /\ last_call.ok
      /\ NoExplicitValue(last_call.arg)
      /\ AbsentOrMalformed(last_call.arg.config) )
    => /\ requester.verify_certificate = B(FALSE)
       /\ requester.timeout = F(3)
       /\ requester.max_retries = I(3)

\* C13: no call modifies a session object that exists: a call either leaves
\* the session of the Requester as it is, or replaces it by a new object and
\* leaves the replaced object as it was; headers that were set are on the
\* session the Requester holds after the call.
C13_SessionsNeverMutated ==
    [][ Constructed =>
          /\ IF requester'.session.id = requester.session.id
             THEN requester'.session = requester.session
             ELSE requester'.replaced = Retired(requester.session)
          /\ (last_call'.op = "headers" /\ last_call'.ok)
                => last_call'.arg \subseteq requester'.session.headers
      ]_vars

\* C14: a verb method makes exactly one call on the session the Requester
\* holds, of the method of the same verb, with the arguments of the caller;
\* it returns what that call returned and raises what that call raised, and
\* leaves the Requester as it was.
C14_VerbForwarded ==
    [][ last_call'.op \in Verbs =>
          /\ Len(last_call'.sent) = 1
          /\ last_call'.sent[1].session = requester.session.id
          /\ last_call'.sent[1].method = last_call'.op
          /\ last_call'.sent[1].args = last_call'.arg
          /\ IF last_call'.sent[1].answer.ok
             THEN /\ last_call'.ok
                  /\ last_call'.result = last_call'.sent[1].answer.value
             ELSE /\ ~last_call'.ok
                  /\ last_call'.err = last_call'.sent[1].answer.value
          /\ requester' = requester
      ]_vars

C14_Witness ==
    /\ last_call.op = "patch"
    /\ last_call.arg = <<"url2", "allow_redirects=False">>
    /\ last_call.ok
    /\ last_call.result = "response2"
    /\ last_call.sent[1].method = "patch"
    /\ requester.sessions_created > 1

---------------------------------------------------------------------------
(* Properties of the pipeline, continued *)

\* C15: a DNS probe whose lookup indicates up leaves status and
\* status_source unset, and the status is never UP with source DNSLOOKUP.
C15_DnsNeverUp ==
    [][ /\ (pc = "dns" /\ probes'.dns = "ok")
            => (status'.status = None /\ status'.status_source = None)
        /\ ~(status'.status = UP /\ status'.status_source = "DNSLOOKUP")
      ]_vars

C15_Witness ==
    /\ pc = "done"
    /\ probes.dns = "ok"
    /\ probes.http = 404
    /\ ~params.use_extra_rules
    /\ status.status = DOWN
    /\ status.status_source = "STDLOOKUP"

\* C16: once the reputation probe has set the status, the HTTP status-code
\* probe changes neither status nor status_source; a verdict that another
\* source than the syntax probe set is only overwritten by the DNS stage or
\* by the rule engine.
C16_VerdictKept ==
    [][ /\ (pc = "http" /\ status.status_source = "REPUTATION")
            => (/\ status'.status = status.status
                /\ status'.status_source = status.status_source
                /\ probes'.http = probes.http)
        /\ (/\ pc # "done"
            /\ status.status # None
            /\ status.status_source # "SYNTAX"
            /\ \/ status'.status # status.status
               \/ status'.status_source # status.status_source)
            => pc \in {"dns", "rules"}
      ]_vars

C16_Witness ==
    /\ pc = "fallback"
    /\ probes.reputation = "malicious"
    /\ probes.http = NoStatusCode
    /\ status.status = UP
    /\ status.status_source = "REPUTATION"

\* The place of each stage in query_status
StageRank(stage) ==
    CASE stage = "syntax" -> 1
      [] stage = "reputation" -> 2
      [] stage = "dns" -> 3
      [] stage = "http" -> 4
      [] stage = "fallback" -> 5
      [] stage = "rules" -> 6

\* C17: the stages of a query_status run execute in the order syntax,
\* reputation, DNS, HTTP status code, fallback, rule engine, each at most
\* once, and the rule engine starts from a status that is already set.
C17_StageOrder ==
    /\ \A i, j \in 1..Len(trace) :
          i < j => StageRank(trace[i]) < StageRank(trace[j])
    /\ (Len(trace) > 0 /\ trace[Len(trace)] = "rules")
          => observed.status # None

C17_Witness ==
    /\ pc = "done"
    /\ trace = <<"dns", "http", "fallback", "rules">>
    /\ observed.status = DOWN
    /\ observed.status_source = "STDLOOKUP"

\* C18: with use_http_code_lookup false no HTTP status-code request is made
\* and no verdict has the source HTTP CODE; with use_dns_lookup false no
\* verdict has the source DNSLOOKUP.
C18_FlagsSkipStages ==
    /\ ~params.use_http_code_lookup
          => (/\ \A i \in 1..Len(trace) : trace[i] # "http"
              /\ status.status_source # "HTTP CODE")
    /\ ~params.use_dns_lookup
          => status.status_source # "DNSLOOKUP"

\* C19: the HTTP status-code probe sets UP / HTTP CODE exactly when the
\* code it got is not empty, not the unknown-status sentinel and is in the
\* up or potentially-up list; otherwise status and status_source are left
\* as they were. Without a usable code no http_status_code is recorded, and
\* the probe never sets DOWN.
C19_HttpProbe ==
    [][ (pc = "http" /\ Len(trace') > Len(trace))
        => LET code == probes'.http
               usable == code # NoStatusCode /\ code # STD_UNKNOWN_STATUS_CODE
               up == usable /\ code \in HttpCodesUp \cup HttpCodesPotentiallyUp
           IN  /\ up => (/\ status'.status = UP
                         /\ status'.status_source = "HTTP CODE")
               /\ ~up => (/\ status'.status = status.status
                          /\ status'.status_source = status.status_source)
               /\ status'.http_status_code =
                      IF usable THEN code ELSE NoStatusCode
               /\ (status'.status = DOWN => status.status = DOWN)
      ]_vars

C19_Witness ==
    /\ pc = "fallback"
    /\ probes.http = 403
    /\ status.http_status_code = 403
    /\ status.status = UP
    /\ status.status_source = "HTTP CODE"

---------------------------------------------------------------------------
(* Properties of the rule engine, continued *)

\* The ruleset holds one rule, of type `all`, that applies to the subject,
\* and start() has run once.
OneAllRuleRan ==
    /\ runs = 1
    /\ Len(rulesets) = 1
    /\ \A k \in RequiredKeys : Has(rulesets[1], k)
    /\ rulesets[1].validation_type = "all"
    /\ rulesets[1].state_transition \in {"up", "down"}
    /\ RegexMatch(rulesets[1].subject_pattern, observed.netloc)

\* C20: an `all` rule checks the status code, the headers and the body in
\* that order, each only when its payload is present and not empty; the
\* transition is applied if and only if at least one check matches, and
\* the resulting status is the same however many of them match.
C20_AllRule ==
    OneAllRuleRan
    => LET rule == rulesets[1]
           hasCodes == /\ Has(rule, "required_status_code")
                       /\ rule.required_status_code # <<>>
           hasHeaders == /\ Has(rule, "required_headers_patterns")
                         /\ rule.required_headers_patterns # {}
           hasBody == /\ Has(rule, "required_body_patterns")
                      /\ rule.required_body_patterns # {}
           codeMatches ==
               /\ hasCodes
               /\ \E i \in 1..Len(rule.required_status_code) :
                    observed.http_status_code = rule.required_status_code[i]
           headersMatch ==
               /\ hasHeaders
               /\ response.ok
               /\ rule.required_headers_patterns \cap response.headers # {}
           bodyMatches ==
               /\ hasBody
               /\ response.ok
               /\ rule.required_body_patterns \cap response.body # {}
           verdict == IF rule.state_transition = "up" THEN UP ELSE DOWN
       IN  /\ checks = (IF hasCodes THEN <<"status_code">> ELSE <<>>)
                       \o (IF hasHeaders THEN <<"headers">> ELSE <<>>)
                       \o (IF hasBody THEN <<"body">> ELSE <<>>)
           /\ status = IF codeMatches \/ headersMatch \/ bodyMatches
                       THEN [observed EXCEPT
                                !.status = verdict,
                                !.status_source = "EXTRA_RULES",
                                !.status_after_extra_rules = verdict]
                       ELSE observed

C20_Witness ==
    /\ OneAllRuleRan
    /\ checks = <<"status_code", "headers", "body">>
    /\ observed.http_status_code = 404
    /\ observed.status = DOWN
    /\ response = Response(TRUE, 404, {"h1"}, {"b1"})
    /\ status.status = UP
    /\ status.status_after_extra_rules = UP

---------------------------------------------------------------------------
(* Properties of the Requester, continued *)

\* C26: a setter call that is rejected leaves the Requester as it was: the
\* field it targets, every other field and the session object.
C26_RejectedSetterNoEffect ==
    [][ (last_call'.op \in Setters /\ ~last_call'.ok)
        => (/\ requester' = requester
            /\ requester'.session.id = requester.session.id
            /\ requester'.sessions_created = requester.sessions_created)
      ]_vars

C26_Witness ==
    /\ last_call.op = "max_redirects"
    /\ last_call.arg = Str
    /\ last_call.err = "TypeError"
    /\ requester.sessions_created = 2
    /\ requester.session.id = 2

\* C27: a max_retries value given to the constructor is the value of the
\* field after construction, whatever the configuration holds.
C27_ExplicitMaxRetriesKept ==
    (/\ last_call.op = "__init__"
     /\ last_call.ok
     /\ last_call.arg.max_retries # NoneValue)
    => requester.max_retries = last_call.arg.max_retries

\* The constructor derives max_retries, verify_certificate, timeout and
\* proxy_pattern from the configuration, and max_redirects is not rejected
DerivesAll(args) ==
    /\ args.max_retries = NoneValue
    /\ args.verify_certificate = NoneValue
    /\ args.timeout = NoneValue
    /\ args.proxy_pattern = NoneValue
    /\ args.max_redirects = NoneValue \/ Accepts("max_redirects", args.max_redirects)

\* C29: deriving the fields from the configuration never raises, whatever
\* the configuration holds, and each derived field meets the constraint of
\* its setter.
C29_GuessNeverRaises ==
    (last_call.op = "__init__" /\ DerivesAll(last_call.arg))
    => /\ last_call.ok
       /\ Accepts("max_retries", requester.max_retries)
       /\ Accepts("timeout", requester.timeout)
       /\ Accepts("proxy_pattern", requester.proxy_pattern)
       /\ requester.verify_certificate.t = "bool"

C29_Witness ==
    /\ last_call.op = "__init__"
    /\ DerivesAll(last_call.arg)
    /\ last_call.arg.config # NoneValue
    /\ last_call.arg.config.max_http_retries = I(0 - 1)
    /\ last_call.arg.config.timeout = I(0 - 1)
    /\ last_call.arg.config.proxy = Str
    /\ last_call.ok
    /\ requester.max_retries = STD_MAX_RETRIES
    /\ requester.timeout = STD_TIMEOUT
    /\ requester.proxy_pattern = Dict(0)

\* What each field is when it is derived from the configuration: the value
\* of the configuration when it can be read and the setter accepts it, the
\* default of the field otherwise
DerivedMaxRetries(config) ==
    IF Accepts("max_retries", config.max_http_retries)
    THEN config.max_http_retries ELSE STD_MAX_RETRIES

DerivedVerifyCertificate(config) ==
    IF config.verify_ssl_certificate.t = "bool"
    THEN config.verify_ssl_certificate ELSE STD_VERIFY_CERTIFICATE

DerivedTimeout(config) ==
    IF Accepts("timeout", config.timeout)
    THEN float(config.timeout) ELSE STD_TIMEOUT

DerivedProxyPattern(config) ==
    IF config.proxy.t = "dict" THEN config.proxy ELSE Dict(0)

\* C30: guess_all_settings derives max_retries, verify_certificate, timeout
\* and proxy_pattern again from the configuration the Requester holds (or
\* their defaults), whatever they were set to before, leaves max_redirects
\* and dns_query_tool as they were, and the session it leaves is built from
\* the derived values.
C30_GuessAllSettings ==
    [][ last_call'.op = "guess_all_settings"
        => /\ last_call'.ok
           /\ requester'.max_retries = DerivedMaxRetries(requester.config)
           /\ requester'.verify_certificate =
                  DerivedVerifyCertificate(requester.config)
           /\ requester'.timeout = DerivedTimeout(requester.config)
           /\ requester'.proxy_pattern = DerivedProxyPattern(requester.config)
           /\ requester'.max_redirects = requester.max_redirects
           /\ requester'.dns_query_tool = requester.dns_query_tool
           /\ requester'.config = requester.config
           /\ BuiltFromFields(requester')
      ]_vars

\* The headers property: self.session.headers
headers(r) == r.session.headers

\* C28: after headers = v on a constructed Requester, the headers read back
\* from the headers property contain every entry of v.
C28_HeadersInUse ==
    [][ (last_call'.op = "headers" /\ last_call'.ok)
        => last_call'.arg \subseteq headers(requester')
      ]_vars

---------------------------------------------------------------------------
(* Properties of the download helper *)

\* C25: download_text returns the body of the response when its status code
\* is 200, and then writes it to the destination when the destination is a
\* non-empty string; for every other status code it raises UnableToDownload
\* and writes nothing.
C25_DownloadText ==
    [][ download'.answer.ok
        => IF download'.answer.status_code = 200
           THEN /\ download'.ok
                /\ download'.result = download'.answer.text
                /\ files' =
                     IF /\ download'.destination.t = "str"
                        /\ download'.destination.s # ""
                     THEN [files EXCEPT ![download'.destination.s] =
                                            download'.answer.text]
                     ELSE files
           ELSE /\ ~download'.ok
                /\ download'.err = "UnableToDownload"
                /\ files' = files
      ]_vars

C25_Witness ==
    /\ download.answer.ok
    /\ download.answer.status_code = 200
    /\ download.answer.text = "t2"
    /\ download.destination = Dest("str", "d1")
    /\ download.result = "t2"
    /\ files["d1"] = "t2"
    /\ files["d2"] = "t1"

---------------------------------------------------------------------------
(* Properties of the transport *)

\* The last call was a request that reached a connection
Connected ==
    /\ last_call.op \in Verbs
    /\ last_call.sent[1].answer.address # NoAddress

\* The rules of the pattern in use whose tld list holds the TLD of the host
\* of the last request
MatchingRules ==
    LET rules == ProxyPattern(requester.session.proxy_pattern).rules
    IN  {i \in 1..Len(rules) : TLD(last_call.arg) \in rules[i].tld}

\* C21: for a host whose TLD is in the tld list of one or more rules, the
\* proxy pair of the earliest such rule is used, not that of a later rule
\* and not the global pair.
C21_FirstMatchingRule ==
    (Connected /\ MatchingRules # {})
    => LET rules == ProxyPattern(requester.session.proxy_pattern).rules
           first == CHOOSE i \in MatchingRules : \A j \in MatchingRules : i <= j
       IN  last_call.sent[1].answer.proxy =
               [http |-> rules[first].http, https |-> rules[first].https]

C21_Witness ==
    /\ Connected
    /\ requester.session.proxy_pattern = Dict(2)
    /\ last_call.arg = <<"example", "com">>
    /\ MatchingRules = {1, 2}
    /\ last_call.sent[1].answer.proxy = Pair("p2")

\* C22: for a host whose TLD is in no rule, the global pair is used when
\* the pattern has one and no proxy otherwise; the request raises no error
\* for the missing match.
C22_GlobalFallback ==
    (Connected /\ MatchingRules = {})
    => LET pattern == ProxyPattern(requester.session.proxy_pattern)
       IN  /\ last_call.sent[1].answer.proxy =
                  IF "global" \in DOMAIN pattern THEN pattern.global ELSE NoProxy
           /\ last_call.err \in {"none", "ConnectionError"}
           /\ last_call.err = "ConnectionError"
                  => last_call.sent[1].answer.value = "ConnectionError"

C22_Witness ==
    /\ Connected
    /\ requester.session.proxy_pattern = Dict(1)
    /\ last_call.arg = <<"example", "com">>
    /\ last_call.ok
    /\ last_call.sent[1].answer.proxy = Pair("p1")

\* C23: every request of the session resolves the host with the resolver
\* the session was given; when the resolver has no usable address the
\* request fails with a ConnectionError, and the OS resolution is not used.
C23_InjectedResolver ==
    last_call.op \in Verbs
    => LET connection == last_call.sent[1].answer
       IN  /\ connection.resolver = requester.session.dns_query_tool
           /\ connection.resolver # "os"
           /\ connection.address = NoAddress
                  => (/\ ~last_call.ok
                      /\ last_call.err = "ConnectionError"
                      /\ last_call.result = None)

C23_Witness ==
    /\ last_call.op = "get"
    /\ last_call.sent[1].answer.address = NoAddress
    /\ last_call.sent[1].answer.resolver = "resolver2"
    /\ last_call.err = "ConnectionError"

\* C24: after the dns_query_tool of a Requester was replaced, a request
\* runs on a session bound to the new resolver.
C24_ResolverReplaced ==
    last_call.op \in Verbs
    => last_call.sent[1].answer.resolver = requester.dns_query_tool

---------------------------------------------------------------------------
(* Properties of the Requester under threads *)

\* No thread is inside a setter call
AllReturned == \A t \in Threads : threads.pc[t] = "idle"

\* C31: under any interleaving of setter calls and requests of several
\* threads on one Requester, the session a request runs on was built from
\* one configuration the Requester went through, never from a mixture of
\* old and new field values, and once every setter call has returned the
\* active session was built from the present value of every field.
C31_SessionsFromOneSnapshot ==
    Constructed =>
        /\ last_call.op \in Verbs
            => BuiltFrom(requester.session)
                 \in threads.snapshots \cup {FieldsOf(requester)}
        /\ AllReturned => BuiltFromFields(requester)

---------------------------------------------------------------------------
(* Properties of the rule engine: what happens after a rule has fired *)

\* start() run on the observed status with the first i rules of the ruleset
UpTo(i) == start(Observed, response, SubSeq(rulesets, 1, i))

\* C32: once a rule has fired and the terminal flag is set, start() evaluates
\* no later rule: status, status_source and the flag are as the firing rule
\* left them, and no check and no live request is made for a later rule.
C32_NoRuleAfterFiring ==
    runs = 1 =>
        \A i \in 1..Len(rulesets) :
            UpTo(i).status.status_after_extra_rules # None
            => /\ status = UpTo(i).status
               /\ live_requests = UpTo(i).requests
               /\ checks = UpTo(i).checks

C32_Witness ==
    /\ runs = 1
    /\ Len(rulesets) = 2
    /\ AllWellFormed(rulesets)
    /\ rulesets[1].validation_type = "status_code"
    /\ rulesets[1].state_transition = "up"
    /\ rulesets[2].validation_type = "headers"
    /\ rulesets[2].state_transition = "down"
    /\ FiresAlone(rulesets[1])
    /\ FiresAlone(rulesets[2])
    /\ Switched(status, "up")
    /\ live_requests = 0
    /\ checks = <<"status_code">>

\* The status-code check of the single `all` rule fired
AllRuleFiredOnStatusCode ==
    /\ OneAllRuleRan
    /\ Has(rulesets[1], "required_status_code")
    /\ \E i \in 1..Len(rulesets[1].required_status_code) :
        observed.http_status_code = rulesets[1].required_status_code[i]

\* C33: once the terminal flag is set the rule engine issues no live request
\* any more, also within the rule that fired: an `all` rule whose status-code
\* check fired makes no live request for its headers or its body payload.
C33_NoLiveRequestAfterFlag ==
    AllRuleFiredOnStatusCode
    => /\ live_requests = 0
       /\ checks = <<"status_code">>

\* The subject pattern of the rule matches the netloc of the subject
SubjectMatches(rule) ==
    /\ Has(rule, "subject_pattern")
    /\ RegexMatch(rule.subject_pattern, observed.netloc)

\* A payload of the rule matches: a required status code is the observed
\* one, or the live answer holds a required header or a required body pattern
PayloadMatches(rule) ==
    \/ /\ Has(rule, "required_status_code")
       /\ \E i \in 1..Len(rule.required_status_code) :
            observed.http_status_code = rule.required_status_code[i]
    \/ /\ Has(rule, "required_headers_patterns")
       /\ response.ok
       /\ rule.required_headers_patterns \cap response.headers # {}
    \/ /\ Has(rule, "required_body_patterns")
       /\ response.ok
       /\ rule.required_body_patterns \cap response.body # {}

\* C34: when no rule of the ruleset fires (the ruleset is empty, no subject
\* pattern matches the netloc or no payload matches) start() leaves status,
\* status_source and the terminal flag as the pipeline resolved them.
C34_NothingFiresNothingChanges ==
    ( /\ runs = 1
      /\ \A i \in 1..Len(rulesets) :
            ~(SubjectMatches(rulesets[i]) /\ PayloadMatches(rulesets[i])) )
    => /\ status.status = observed.status
       /\ status.status_source = observed.status_source
       /\ status.status_after_extra_rules = None
       /\ status = observed

C34_Witness ==
    /\ runs = 1
    /\ Len(rulesets) = 2
    /\ AllWellFormed(rulesets)
    /\ rulesets[1].validation_type = "headers"
    /\ rulesets[2].validation_type = "status_code"
    /\ rulesets[2].required_status_code = <<404>>
    /\ SubjectMatches(rulesets[1]) /\ ~PayloadMatches(rulesets[1])
    /\ SubjectMatches(rulesets[2]) /\ ~PayloadMatches(rulesets[2])
    /\ checks = <<"headers", "status_code">>
    /\ live_requests = 1
    /\ status = observed
    /\ status.status = UP

---------------------------------------------------------------------------
(* Properties of the pipeline, continued *)

Ran(stage) == \E i \in 1..Len(trace) : trace[i] = stage

\* The ruleset of the checker is one `status_code` rule, and it has fired
StatusCodeRuleFired ==
    /\ runs = 1
    /\ Len(rulesets) = 1
    /\ rulesets[1].validation_type = "status_code"
    /\ status.status_after_extra_rules # None

\* C35: in a run of query_status with the rules enabled, a `status_code`
\* rule fires only when the HTTP probe ran in this check and answered a code
\* that is not the sentinel; when the reputation probe (UP) or the DNS probe
\* (DOWN) decided the verdict, the HTTP probe is skipped, http_status_code
\* stays unset and no `status_code` rule fires.
C35_StatusCodeRuleNeedsProbe ==
    (pc = "done" /\ params.use_extra_rules) =>
        /\ StatusCodeRuleFired
            => /\ Ran("http")
               /\ probes.http \notin {NoStatusCode, STD_UNKNOWN_STATUS_CODE}
               /\ observed.http_status_code = probes.http
        /\ (probes.reputation = "malicious" \/ probes.dns = "fail")
            => /\ ~Ran("http")
               /\ observed.http_status_code = NoStatusCode
               /\ status.http_status_code = NoStatusCode
               /\ ~StatusCodeRuleFired

C35_Witness ==
    /\ pc = "done"
    /\ params.use_extra_rules
    /\ probes.dns = "fail"
    /\ trace = <<"dns", "rules">>
    /\ rulesets = <<Rule(Anything, "status_code", "up") @@ Codes(<<404>>)>>
    /\ checks = <<"status_code">>
    /\ status.status = DOWN
    /\ status.status_source = "DNSLOOKUP"
    /\ status.http_status_code = NoStatusCode

\* C36: when the syntax probe runs first and yields a verdict, the verdict
\* is remembered as status_post_syntax_checker and the pipeline goes on: the
\* reputation, DNS and HTTP probes run, each under its own condition, and
\* the verdict one of them gives replaces the verdict of the syntax probe.
C36_SyntaxVerdictNotTerminal ==
    (pc = "rules" /\ Ran("syntax") /\ probes.syntax = "invalid") =>
        /\ status_post_syntax_checker = INVALID
        /\ Ran("reputation") <=> params.use_reputation_lookup
        /\ Ran("dns") <=> (status.url_syntax /\ probes.reputation # "malicious")
        /\ Ran("http") <=> (probes.reputation # "malicious"
                            /\ probes.dns # "fail")
        /\ probes.reputation = "malicious"
            => status.status = UP /\ status.status_source = "REPUTATION"
        /\ probes.dns = "fail"
            => status.status = DOWN /\ status.status_source = "DNSLOOKUP"
        /\ probes.http \in HttpCodesUp \cup HttpCodesPotentiallyUp
            => status.status = UP /\ status.status_source = "HTTP CODE"

C36_Witness ==
    /\ pc = "rules"
    /\ probes.syntax = "invalid"
    /\ status_post_syntax_checker = INVALID
    /\ trace = <<"syntax", "reputation", "http">>
    /\ probes.reputation = "clean"
    /\ probes.http = 200
    /\ status.status = UP
    /\ status.status_source = "HTTP CODE"

\* C37: each subject check starts from a fresh status record: after
\* subject_propagator the status is unset, the record holds no status,
\* status_source, http_status_code or whois record of the previous subject,
\* and it is another object than the record handed out for the previous
\* subject, which is left as it was handed out.
C37_FreshStatusPerSubject ==
    [][ (pc = "done" /\ pc' = "syntax")
        => /\ status'.status = None
           /\ status'.status_source = None
           /\ status'.http_status_code = NoStatusCode
           /\ status'.whois_lookup_record = None
           /\ status'.status_after_extra_rules = None
           /\ status'.object # status.object
      ]_vars

C37_Witness ==
    /\ pc = "syntax"
    /\ status.object = 2
    /\ status.status = None
    /\ status.http_status_code = NoStatusCode
    /\ params.use_extra_rules
    /\ response = Response(TRUE, 404, {"h1"}, {"b1"})

---------------------------------------------------------------------------
(* Properties of the DownloadHelper *)

\* The session the next download_text runs on
NextSession == DownloadHelper_session(helper).session

\* The session routes with the proxies of the helper, no proxies given being
\* the empty pattern of a Requester
Carries(session, proxies) ==
    \/ session.proxies = proxies
    \/ proxies = NoneValue /\ session.proxies = Dict(0)

\* C38: after any sequence of set_own_proxy_handler and set_proxies calls,
\* the session the next download_text uses is of the kind the present
\* own_proxy_handler selects (a Requester when true, a plain session with a
\* retry adapter when false) and carries the present proxies.
C38_SessionFollowsHandlerAndProxies ==
    /\ NextSession.kind = IF Truthy(helper.own_proxy_handler)
                          THEN "Requester" ELSE "Session"
    /\ Carries(NextSession, helper.proxies)

\* C39: the retries configured on the helper is the number of retries of
\* the session download_text uses, in both proxy-handler modes and when
\* retries is changed after a session was created.
C39_RetriesApplied ==
    NextSession.retries = helper.retries

===========================================================================
